---- MODULE Spec2Model ----
(***************************************************************************)
(* Verification model of the spongecake backend (spongecake-ui/backend/    *)
(* server.py) and of the drivers of the agent loop (test/test.py).         *)
(*                                                                         *)
(* Specification Spec is the session manager of SpongecakeServer: the      *)
(* run-agent handler, the loop thread (_run_agent_in_thread and            *)
(* run_agent_action), the grace-period cleanup thread, the cancel-agent    *)
(* handler and the stream_logs generators, interleaved at every access to  *)
(* the state they share (the two registries, the stop events, the queues,  *)
(* the root logger and the class attribute result).                        *)
(*                                                                         *)
(* The agent loop behind Desktop.action (spongecake/agent.py) is not part  *)
(* of the sources; its steps (AgentCheck, AgentDecide, AgentExec) follow   *)
(* section 4.3 of the specification and the way its callers use it.        *)
(*                                                                         *)
(* SpecKeys is one execution of keypress (docker/api_server.py and         *)
(* Desktop.keypress), SpecPorts the start-container requests with the port *)
(* scan of find_available_port and the relay processes, SpecDesktop the    *)
(* callers of Desktop.start and Desktop.stop on one container name.        *)
(*                                                                         *)
(* SpecRequests is the run-agent handler given request bodies the schema   *)
(* accepts or refuses, SpecStream the stream_logs generators with their    *)
(* heartbeats counted, and SpecExec one action request given to the        *)
(* dedicated endpoint of docker/api_server.py, to its generic /action      *)
(* endpoint and to the method of Desktop, with the sandbox commands each   *)
(* issues. SpecCleanup is the shutdown of the server: cleanup called by    *)
(* run and again by the main block.                                        *)
(***************************************************************************)
EXTENDS Integers, Sequences, FiniteSets, TLC

\* ------------------------------------------------------------------ bounds
MaxSessions  == 1   \* run-agent requests accepted under Spec and SpecListeners
MaxLoops     == 2   \* run-agent requests accepted under SpecLoops
MaxListeners == 1   \* GET /logs requests under Spec
MaxAttach    == 2   \* GET /logs requests under SpecListeners
MaxCancels   == 1   \* POST /cancel-agent requests under Spec
MaxActions   == 2   \* sandbox actions one loop executes
MaxCalls     == 4   \* calls of desktop.action one driver makes

Sessions     == 1..MaxSessions
LoopSessions == 1..MaxLoops
AllSessions  == Sessions \cup LoopSessions
Listeners    == 1..MaxListeners
Attachers    == 1..MaxAttach
AllListeners == Listeners \cup Attachers
Cancellers   == 1..MaxCancels

VARIABLES
  issued,           \* session ids returned to a client by api_run_agent
  active_sessions,  \* keys of self.active_sessions (the value is the session's queue)
  active_threads,   \* keys of self.active_threads
  queue,            \* queue[s]: content of the session's queue.Queue, oldest first
  hist,             \* history: every event ever put on queue[s], in put order
  stop_event,       \* stop_event[s]: the session's threading.Event
  auto_mode,        \* auto_mode[s]: the request's auto_mode
  tpc,              \* position of the loop thread of s
  status,           \* status returned by desktop.action to the thread of s
  cmds,             \* sandbox actions executed by the loop of s
  callsAfterStop,   \* history: decision-service calls issued while stop_event[s] was set
  cmdsAfterStop,    \* history: sandbox actions executed while stop_event[s] was set
  result,           \* SpongecakeServer.result[0], one slot shared by all sessions
  handlers,         \* sessions whose QueueHandler is attached to the root logger
  orig_handlers,    \* original_handlers copied by the thread of s
  cleanup,          \* position of the cleanup_session thread of s
  cpc, csid,        \* position and target of each cancel_agent request
  lpc, lsid,        \* position and session of each stream_logs request
  received,         \* history: events yielded to each listener, in order
  early,            \* history: listener l attached while the loop of its session
                    \* was still running and before any cancel request for it
  proposal,         \* the action the loop of s holds between its proposal and
                    \* its execution: "none", "action" or "gated"
  gatedRan,         \* history: the loop of s executed an action gated by a safety check
  root_level,       \* level of the root logger
  original_level    \* original_level read by the thread of s

\* The proposed action of each loop and what became of the gated ones
gvars == <<proposal, gatedRan>>

\* The level of the root logger and the copies the threads restore
lvars == <<root_level, original_level>>

svars == <<issued, active_sessions, active_threads, queue, hist, stop_event,
           auto_mode, tpc, status, cmds, callsAfterStop, cmdsAfterStop,
           result, handlers, orig_handlers, cleanup, cpc, csid, lpc, lsid,
           received, early, gvars, lvars>>

\* The driver of test/test.py (handle_action) and the agent it drives
VARIABLES
  d_mode,           \* who drives the agent: "test" (handle_action) or "server"
  h_pc,             \* position of the driver
  h_ack,            \* acknowledged_safety_checks of the call being made
  d_status,         \* status the last call of desktop.action returned
  d_calls,          \* calls of desktop.action made so far
  a_pc,             \* position of the agent loop inside the call
  a_pending,        \* the agent holds a gated action awaiting acknowledgment
  a_execs,          \* ungated actions the agent has executed
  pendingExecs,     \* history: executions of the gated action last surfaced
  ackSupplied,      \* history: the user typed "ack" for the check last surfaced
  ackPassed,        \* history: a call passed acknowledged_safety_checks=True for it
  unackedResumes,   \* history: calls without acknowledgment while it was pending
  autoGated,        \* history: gated actions proposed to a loop in auto mode
  autoExecs         \* history: gated actions a loop in auto mode executed

\* The history of the loop in auto mode
avars == <<autoGated, autoExecs>>

dvars == <<d_mode, h_pc, h_ack, d_status, d_calls, a_pc, a_pending, a_execs,
           pendingExecs, ackSupplied, ackPassed, unackedResumes, avars>>

\* One execution of keypress, by the sandbox API (docker/api_server.py) or
\* by the SDK (Desktop.keypress)
VARIABLES
  k_impl,           \* which keypress runs: "api" or "desktop"
  k_keys,           \* the batch: the sequence of key tokens
  k_i,              \* index of the next token of the for loop
  k_pc,             \* position inside keypress
  k_cmds,           \* history: the xdotool commands issued, in order, with their outcome
  ctrl_pressed,     \* local ctrl_pressed
  shift_pressed     \* local shift_pressed

kvars == <<k_impl, k_keys, k_i, k_pc, k_cmds, ctrl_pressed, shift_pressed>>

\* The start-container requests of the server and the display relays they
\* start (start_container_if_needed, start_novnc_server, find_available_port)
VARIABLES
  occupied,         \* ports some process is bound to
  r_pc,             \* position of each start-container request
  current_port,     \* current_port of the request's find_available_port, then its port
  r_probes,         \* history: the ports the request passed to is_port_available
  r_full,           \* history: every port of the range was occupied when the scan began
  r_again,          \* history: the request came while an earlier one's relay was running
  r_out,            \* how the request ended
  r_ret,            \* the novncPort the request returned (0 for None)
  relay,            \* state of the relay process the request started
  novnc_port        \* self.novnc_port (0 for None)

pvars == <<occupied, r_pc, current_port, r_probes, r_full, r_again, r_out,
           r_ret, relay, novnc_port>>

\* The container of one sandbox name in the Docker daemon, and the callers
\* of Desktop.start and Desktop.stop on that name
VARIABLES
  c_state,          \* the container of the name: "absent", "stopped" or "running"
  c_id,             \* identity of that container (0 when absent)
  created,          \* history: containers created so far for the name
  image_local,      \* the image is present locally
  t_pc,             \* position of each caller inside start or stop
  t_op,             \* the call the caller makes or made last
  t_n,              \* calls the caller has begun
  t_handle,         \* the container object the call holds
  t_out,            \* how the caller's last call ended: "returned" or "raised"
  t_why,            \* what made the call raise
  t_ret,            \* identity of the container the last start returned
  t_prev,           \* history: last_started when the call began
  t_alone,          \* history: no other call ran during this call
  t_created0,       \* history: created when the call began
  t_pulls,          \* history: outcomes of the image pulls of the call, in order
  last_started      \* history: container returned by the most recent start,
                    \* 0 once a stop call has begun since

cvars == <<c_state, c_id, created, image_local, t_pc, t_op, t_n, t_handle,
           t_out, t_why, t_ret, t_prev, t_alone, t_created0, t_pulls,
           last_started>>

\* What a client of the server observes at the HTTP boundary
VARIABLES
  req_body,         \* history: the body of the last run-agent request
  req_reply,        \* history: the status of its response (0 before any request)
  beats             \* history: heartbeats the generator of listener l has yielded

hvars == <<req_body, req_reply, beats>>

\* One action request of the action vocabulary, executed by each of its
\* entry points: the dedicated endpoint of the sandbox API, the generic
\* /action endpoint (docker/api_server.py) and the method of Desktop
VARIABLES
  e_req,            \* the request: its type and its parameters
  e_failat,         \* which command of a run fails in the sandbox (0: none)
  e_pc,             \* position of each run
  e_args,           \* the function a run calls and the arguments it passes
  e_cmds,           \* history: the commands a run has issued, in order
  e_resp            \* what a run returned or raised

evars == <<e_req, e_failat, e_pc, e_args, e_cmds, e_resp>>

\* The shutdown of the server: SpongecakeServer.cleanup, called by the
\* finally clause of run and again by the finally clause of the main block
VARIABLES
  u_process,        \* self.novnc_process: "none" for None, else the state of
                    \* the relay process, "running" or "exited"
  u_desktop,        \* self.desktop is set
  u_container,      \* the container of the Desktop: "absent" or "running"
  u_pc,             \* position inside cleanup
  u_calls,          \* calls of cleanup begun
  u_stops,          \* history: calls of desktop.stop made
  u_fails,          \* history: steps of cleanup that raised inside their try
  u_log             \* history: records logged by cleanup, in order

uvars == <<u_process, u_desktop, u_container, u_pc, u_calls, u_stops, u_fails, u_log>>

\* The variables of the components other than the session manager and the
\* drivers of the agent
ovars == <<kvars, pvars, cvars, hvars, evars, uvars>>

vars == <<svars, dvars, ovars>>

\* ------------------------------------------------------------------ events
\* One element of a session queue. type "raw" is the one string put that is
\* not JSON (server.py:441); src is who put it; by is the canceller for src
\* "cancel" and the session whose loop emitted it otherwise; data is the
\* agent_response of a result event.
Ev(h, s, t, src, by, d) ==
  [id |-> Len(h[s]) + 1, type |-> t, src |-> src, by |-> by, data |-> d]

\* log_queue.put(e) on the queue of session s
Put(f, s, e) == [f EXCEPT ![s] = Append(@, e)]

\* json.loads(msg) succeeds on every message except the raw string
ParsesAsJson(e) == e.type # "raw"

\* queue.Queue.get: the oldest element leaves the queue
QGetLifo(q) == [item |-> q[Len(q)], rest |-> SubSeq(q, 1, Len(q) - 1)]

QGet(q) == [item |-> Head(q), rest |-> Tail(q)]

\* QueueHandler.emit for a record of a spongecake logger emitted by the loop
\* of session s: every QueueHandler attached to the root logger puts a log
\* event on its own queue.
Emit(f, s) ==
  [x \in AllSessions |->
     IF x \in handlers THEN Append(f[x], Ev(hist, x, "log", "handler", s, "log"))
     ELSE f[x]]

\* ------------------------------------------------------------------ Init
\* The driver's variables while no driver runs
DriverIdle ==
  /\ d_mode = "none"
  /\ h_pc = "none"
  /\ h_ack = FALSE
  /\ d_status = "none"
  /\ d_calls = 0
  /\ a_pc = "idle"
  /\ a_pending = FALSE
  /\ a_execs = 0
  /\ pendingExecs = 0
  /\ ackSupplied = FALSE
  /\ ackPassed = FALSE
  /\ unackedResumes = 0
  /\ autoGated = 0
  /\ autoExecs = 0

ServerInit ==
  /\ issued = {}
  /\ active_sessions = {}
  /\ active_threads = {}
  /\ queue = [s \in AllSessions |-> <<>>]
  /\ hist = [s \in AllSessions |-> <<>>]
  /\ stop_event = [s \in AllSessions |-> FALSE]
  /\ auto_mode = [s \in AllSessions |-> FALSE]
  /\ tpc = [s \in AllSessions |-> "none"]
  /\ status = [s \in AllSessions |-> "none"]
  /\ cmds = [s \in AllSessions |-> 0]
  /\ callsAfterStop = [s \in AllSessions |-> 0]
  /\ cmdsAfterStop = [s \in AllSessions |-> 0]
  /\ result = "None"
  /\ handlers = {}
  /\ orig_handlers = [s \in AllSessions |-> {}]
  /\ cleanup = [s \in AllSessions |-> "none"]
  /\ cpc = [c \in Cancellers |-> "idle"]
  /\ csid = [c \in Cancellers |-> 0]
  /\ lpc = [l \in AllListeners |-> "idle"]
  /\ lsid = [l \in AllListeners |-> 0]
  /\ received = [l \in AllListeners |-> <<>>]
  /\ early = [l \in AllListeners |-> FALSE]
  /\ proposal = [s \in AllSessions |-> "none"]
  /\ gatedRan = [s \in AllSessions |-> FALSE]
  /\ root_level = "INFO"
  /\ original_level = [s \in AllSessions |-> "INFO"]

\* No keypress is being executed
KeysIdle ==
  /\ k_impl = "none"
  /\ k_keys = <<>>
  /\ k_i = 0
  /\ k_pc = "none"
  /\ k_cmds = <<>>
  /\ ctrl_pressed = FALSE
  /\ shift_pressed = FALSE

MaxStarts == 2          \* start-container requests
MAX_PORT_ATTEMPTS == 3  \* Config.MAX_PORT_ATTEMPTS (100 in config.py), bounded

NOVNC_BASE_PORT == 6080

Starters == 1..MaxStarts

\* The ports find_available_port may probe
PortRange == NOVNC_BASE_PORT..(NOVNC_BASE_PORT + MAX_PORT_ATTEMPTS - 1)

\* No start-container request has been made; ports is the set of ports other
\* processes hold
PortsIdle(ports) ==
  /\ occupied = ports
  /\ r_pc = [r \in Starters |-> "idle"]
  /\ current_port = [r \in Starters |-> 0]
  /\ r_probes = [r \in Starters |-> <<>>]
  /\ r_full = [r \in Starters |-> FALSE]
  /\ r_again = [r \in Starters |-> FALSE]
  /\ r_out = [r \in Starters |-> "none"]
  /\ r_ret = [r \in Starters |-> 0]
  /\ relay = [r \in Starters |-> "none"]
  /\ novnc_port = 0

MaxCallers == 2   \* callers of Desktop.start and Desktop.stop on one name
MaxOps     == 2   \* calls each of them makes

Callers == 1..MaxCallers

\* No call of Desktop.start or Desktop.stop has been made; there is no
\* container of the name; img is whether the image is present locally
DesktopIdle(img) ==
  /\ c_state = "absent"
  /\ c_id = 0
  /\ created = 0
  /\ image_local = img
  /\ t_pc = [p \in Callers |-> "idle"]
  /\ t_op = [p \in Callers |-> "none"]
  /\ t_n = [p \in Callers |-> 0]
  /\ t_handle = [p \in Callers |-> 0]
  /\ t_out = [p \in Callers |-> "none"]
  /\ t_why = [p \in Callers |-> "none"]
  /\ t_ret = [p \in Callers |-> 0]
  /\ t_prev = [p \in Callers |-> 0]
  /\ t_alone = [p \in Callers |-> FALSE]
  /\ t_created0 = [p \in Callers |-> 0]
  /\ t_pulls = [p \in Callers |-> <<>>]
  /\ last_started = 0

\* No request has been observed and no heartbeat yielded
BoundaryIdle ==
  /\ req_body = "none"
  /\ req_reply = 0
  /\ beats = [l \in AllListeners |-> 0]

\* The entry points of an action request
Runs == {"endpoint", "action", "desktop"}

\* The arguments of a call: fn is the function called ("none" when there is
\* none to call, "reject" when the entry point answers with the error status
\* code without calling any)
NoArgs ==
  [fn |-> "none", code |-> 0, x |-> 0, y |-> 0, button |-> "", scroll_x |-> 0,
   scroll_y |-> 0, keys |-> <<>>, text |-> "", seconds |-> 0, url |-> ""]

\* No action request is being executed
ExecIdle ==
  /\ e_req = [type |-> "none", x |-> {}, y |-> {}, button |-> {},
              scroll_x |-> {}, scroll_y |-> {}, keys |-> {}, text |-> {},
              seconds |-> {}, url |-> {}]
  /\ e_failat = 0
  /\ e_pc = [ep \in Runs |-> "none"]
  /\ e_args = [ep \in Runs |-> NoArgs]
  /\ e_cmds = [ep \in Runs |-> <<>>]
  /\ e_resp = [ep \in Runs |-> [code |-> 0, status |-> "none"]]

\* The server is not shutting down
CleanupIdle ==
  /\ u_process = "none"
  /\ u_desktop = FALSE
  /\ u_container = "absent"
  /\ u_pc = "idle"
  /\ u_calls = 0
  /\ u_stops = 0
  /\ u_fails = 0
  /\ u_log = <<>>

Init ==
  /\ ServerInit /\ DriverIdle /\ KeysIdle /\ PortsIdle({}) /\ DesktopIdle(TRUE)
  /\ BoundaryIdle /\ ExecIdle /\ CleanupIdle

\* ------------------------------------------------------- POST /run-agent
\* api_run_agent for a body that passed validation: the session id is fresh
\* (uuid4), the queue is registered, the thread is started and registered.
\* started = FALSE is thread.start() raising: the handler sets the stop event
\* and registers no thread. The request's safety_acknowledged never reaches
\* the loop as TRUE: the schema has no such field (schemas.py:11-12).
RunAgentAccepted(s, auto, started) ==
  /\ s \notin issued
  /\ \A x \in AllSessions : x < s => x \in issued
  /\ issued' = issued \cup {s}
  /\ active_sessions' = active_sessions \cup {s}
  /\ auto_mode' = [auto_mode EXCEPT ![s] = auto]
  /\ IF started
       THEN /\ tpc' = [tpc EXCEPT ![s] = "setup"]
            /\ active_threads' = active_threads \cup {s}
            /\ UNCHANGED stop_event
       ELSE /\ stop_event' = [stop_event EXCEPT ![s] = TRUE]
            /\ UNCHANGED <<tpc, active_threads>>
  /\ UNCHANGED <<queue, hist, status, cmds, callsAfterStop,
                 cmdsAfterStop, result, handlers, orig_handlers, cleanup,
                 cpc, csid, lpc, lsid, received, early, gvars, lvars>>

ApiRunAgent(s, auto, started) ==
  /\ RunAgentAccepted(s, auto, started)
  /\ UNCHANGED <<dvars, ovars>>

\* The bodies of a run-agent request: no JSON body, the empty object, an
\* object the schema rejects (no messages, or messages that is no string),
\* an object with messages
Bodies == {"none", "empty", "invalid", "valid"}

\* schema.load(data) returns the validated data
SchemaLoadsAny(body) == TRUE

SchemaLoads(body) == body = "valid"

\* api_run_agent on any body, with the status of its response observed.
\* unsupported = TRUE is request.get_json() raising for a request without
\* JSON body (what it does depends on the Flask release), which the outer
\* except clause answers with 500; "if not data" and the ValidationError of
\* schema.load are answered with 400; all three return before a session id
\* is made.
ApiRunAgentRequest(s, body, unsupported, auto, started) ==
  /\ unsupported => body = "none"
  /\ req_body' = body
  /\ IF unsupported
       THEN /\ req_reply' = 500
            /\ UNCHANGED svars
       ELSE IF body \in {"none", "empty"} \/ ~SchemaLoads(body)
         THEN /\ req_reply' = 400
              /\ UNCHANGED svars
         ELSE /\ req_reply' = 200
              /\ RunAgentAccepted(s, auto, started)
  /\ UNCHANGED <<beats, dvars, kvars, pvars, cvars, evars, uvars>>

\* ------------------------------------------------------- the loop thread
\* _run_agent_in_thread up to the call of desktop.action: the QueueHandler
\* is attached to the root logger, the raw start message is put, and
\* run_agent_action calls desktop.action. raises = TRUE is that call raising
\* (no Desktop yet, or any exception of the SDK): run_agent_action catches it.
ThreadSetup(s, raises) ==
  /\ tpc[s] = "setup"
  /\ orig_handlers' = [orig_handlers EXCEPT ![s] = handlers]
  /\ original_level' = [original_level EXCEPT ![s] = root_level]
  /\ root_level' = "DEBUG"
  /\ handlers' = handlers \cup {s}
  /\ queue' = Put(queue, s, Ev(hist, s, "raw", "thread", s, "start"))
  /\ hist' = Put(hist, s, Ev(hist, s, "raw", "thread", s, "start"))
  /\ IF raises
       THEN /\ tpc' = [tpc EXCEPT ![s] = "tail"]
            /\ status' = [status EXCEPT ![s] = "RAISED"]
       ELSE /\ tpc' = [tpc EXCEPT ![s] = "check"]
            /\ UNCHANGED status
  /\ UNCHANGED <<issued, active_sessions, active_threads, stop_event,
                 auto_mode, cmds, callsAfterStop, cmdsAfterStop,
                 result, cleanup, cpc, csid, lpc, lsid, received, early>>
  /\ UNCHANGED <<gvars, dvars, ovars>>

\* The stop_event argument run_agent_action hands to desktop.action
ActionStopArgNone(s) == FALSE

ActionStopArg(s) == stop_event[s]

\* The acknowledged_safety_checks argument run_agent_action hands to
\* desktop.action: the request's safety_acknowledged, which is always its
\* default because the schema does not define the field.
ActionAckArg(s) == FALSE

\* needs_safety_check_handler: True only when self.safety_ack is set, and no
\* code sets it; otherwise the pending check is stored in result[0].
SafetyHandlerReturnsTrue == TRUE

SafetyHandlerReturns == FALSE

\* What run_agent_action does once desktop.action has returned status st:
\* it never calls desktop.action again for this session.
AfterActionResume(st) ==
  IF st \in {"NEEDS_INPUT", "NEEDS_SAFETY_CHECK"} THEN "check" ELSE "tail"

AfterAction(st) == "tail"

\* The loop returns status st to run_agent_action
LoopReturns(s, st) ==
  /\ status' = [status EXCEPT ![s] = st]
  /\ tpc' = [tpc EXCEPT ![s] = AfterAction(st)]

\* The cancellation check of the loop, before each decision-service call
AgentCheck(s) ==
  /\ tpc[s] = "check"
  /\ IF ActionStopArg(s)
       THEN LoopReturns(s, "CANCELLED")
       ELSE /\ tpc' = [tpc EXCEPT ![s] = "decide"]
            /\ UNCHANGED status
  /\ UNCHANGED <<issued, active_sessions, active_threads, queue, hist,
                 stop_event, auto_mode, cmds, callsAfterStop,
                 cmdsAfterStop, result, handlers, orig_handlers, cleanup,
                 cpc, csid, lpc, lsid, received, early>>
  /\ UNCHANGED <<gvars, lvars, dvars, ovars>>

Replies == {"final", "input", "gated", "action", "fail"}

\* Whether a proposed action gated by a safety check may execute
Gate(s) == auto_mode[s] \/ ActionAckArg(s) \/ SafetyHandlerReturns

\* One decision-service call and the dispatch of its reply. The call is
\* logged by a spongecake logger. In interactive mode the status handlers of
\* the server run: complete_handler and needs_input_handler store text in
\* result[0], needs_safety_check_handler stores the pending check,
\* error_handler stores None. In auto mode no handler is passed.
AgentDecide(s, reply) ==
  /\ tpc[s] = "decide"
  /\ reply \in {"action", "gated"} => cmds[s] < MaxActions
  /\ callsAfterStop' = [callsAfterStop EXCEPT ![s] = @ + (IF stop_event[s] THEN 1 ELSE 0)]
  /\ queue' = Emit(queue, s)
  /\ hist' = Emit(hist, s)
  /\ CASE reply = "final" ->
            /\ LoopReturns(s, "COMPLETE")
            /\ result' = IF auto_mode[s] THEN result ELSE "text"
       [] reply = "input" ->
            /\ LoopReturns(s, IF auto_mode[s] THEN "ERROR" ELSE "NEEDS_INPUT")
            /\ result' = IF auto_mode[s] THEN result ELSE "text"
       [] reply = "gated" /\ Gate(s) ->
            /\ tpc' = [tpc EXCEPT ![s] = "exec"]
            /\ UNCHANGED <<status, result>>
       [] reply = "gated" /\ ~Gate(s) ->
            /\ LoopReturns(s, "NEEDS_SAFETY_CHECK")
            /\ result' = "pending"
       [] reply = "action" ->
            /\ tpc' = [tpc EXCEPT ![s] = "exec"]
            /\ UNCHANGED <<status, result>>
       [] reply = "fail" ->
            /\ LoopReturns(s, "ERROR")
            /\ result' = IF auto_mode[s] THEN result ELSE "None"
  /\ proposal' = [proposal EXCEPT ![s] =
       IF reply \in {"action", "gated"} THEN reply ELSE "none"]
  /\ UNCHANGED <<issued, active_sessions, active_threads, stop_event,
                 auto_mode, cmds, cmdsAfterStop, handlers, orig_handlers,
                 cleanup, cpc, csid, lpc, lsid, received, early, gatedRan>>
  /\ UNCHANGED <<lvars, dvars, ovars>>

\* The Action Executor runs the proposed action in the sandbox; ok = FALSE is
\* the action failing, which ends the loop in ERROR.
AgentExec(s, ok) ==
  /\ tpc[s] = "exec"
  /\ cmds' = [cmds EXCEPT ![s] = @ + 1]
  /\ cmdsAfterStop' = [cmdsAfterStop EXCEPT ![s] = @ + (IF stop_event[s] THEN 1 ELSE 0)]
  /\ IF ok
       THEN /\ tpc' = [tpc EXCEPT ![s] = "check"]
            /\ UNCHANGED <<status, result>>
       ELSE /\ LoopReturns(s, "ERROR")
            /\ result' = IF auto_mode[s] THEN result ELSE "None"
  /\ gatedRan' = [gatedRan EXCEPT ![s] = @ \/ proposal[s] = "gated"]
  /\ proposal' = [proposal EXCEPT ![s] = "none"]
  /\ UNCHANGED <<issued, active_sessions, active_threads, queue, hist,
                 stop_event, auto_mode, callsAfterStop, handlers,
                 orig_handlers, cleanup, cpc, csid, lpc, lsid, received, early>>
  /\ UNCHANGED <<lvars, dvars, ovars>>

\* The tail of run_agent_action and the put of its result: agent_response is
\* read from the shared result[0]; a pending safety check is reported as
\* such, a text list by its first element, and None raises TypeError at
\* agent_response[0], which the thread's except clause reports as a log event
\* followed by an error result.
RunAgentTail(s) ==
  /\ tpc[s] = "tail"
  /\ IF result = "None"
       THEN /\ queue' = Put(queue, s, Ev(hist, s, "log", "thread", s, "error"))
            /\ hist' = Put(hist, s, Ev(hist, s, "log", "thread", s, "error"))
            /\ tpc' = [tpc EXCEPT ![s] = "exc_result"]
       ELSE /\ queue' = Put(queue, s, Ev(hist, s, "result", "thread", s, result))
            /\ hist' = Put(hist, s, Ev(hist, s, "result", "thread", s, result))
            /\ tpc' = [tpc EXCEPT ![s] = "finally"]
  /\ UNCHANGED <<issued, active_sessions, active_threads, stop_event,
                 auto_mode, status, cmds, callsAfterStop,
                 cmdsAfterStop, result, handlers, orig_handlers, cleanup,
                 cpc, csid, lpc, lsid, received, early>>
  /\ UNCHANGED <<gvars, lvars, dvars, ovars>>

\* An except clause that puts the error log only
ThreadExcSkipsResult(s) ==
  /\ tpc[s] = "exc_result"
  /\ tpc' = [tpc EXCEPT ![s] = "finally"]
  /\ UNCHANGED <<issued, active_sessions, active_threads, queue, hist,
                 stop_event, auto_mode, status, cmds, callsAfterStop,
                 cmdsAfterStop, result, handlers, orig_handlers, cleanup,
                 cpc, csid, lpc, lsid, received, early>>
  /\ UNCHANGED <<gvars, lvars, dvars, ovars>>

\* The second put of the except clause: the error result
ThreadExcResult(s) ==
  /\ tpc[s] = "exc_result"
  /\ queue' = Put(queue, s, Ev(hist, s, "result", "thread", s, "error"))
  /\ hist' = Put(hist, s, Ev(hist, s, "result", "thread", s, "error"))
  /\ tpc' = [tpc EXCEPT ![s] = "finally"]
  /\ UNCHANGED <<issued, active_sessions, active_threads, stop_event,
                 auto_mode, status, cmds, callsAfterStop,
                 cmdsAfterStop, result, handlers, orig_handlers, cleanup,
                 cpc, csid, lpc, lsid, received, early>>
  /\ UNCHANGED <<gvars, lvars, dvars, ovars>>

\* The finally clause: the root logger gets the level the thread read at its
\* start, the QueueHandler is removed, every handler of the
\* copied list that is no longer attached is attached again, the complete
\* event is put and the cleanup thread is started.
ThreadFinally(s) ==
  /\ tpc[s] = "finally"
  /\ root_level' = original_level[s]
  /\ handlers' = (handlers \ {s}) \cup orig_handlers[s]
  /\ queue' = Put(queue, s, Ev(hist, s, "complete", "thread", s, "completed"))
  /\ hist' = Put(hist, s, Ev(hist, s, "complete", "thread", s, "completed"))
  /\ tpc' = [tpc EXCEPT ![s] = "done"]
  /\ cleanup' = [cleanup EXCEPT ![s] = "sleeping"]
  /\ UNCHANGED <<issued, active_sessions, active_threads, stop_event,
                 auto_mode, status, cmds, callsAfterStop,
                 cmdsAfterStop, result, orig_handlers, cpc, csid, lpc, lsid,
                 received, early, original_level>>
  /\ UNCHANGED <<gvars, dvars, ovars>>

\* ------------------------------------------------ cleanup_session thread
\* After the 60 s sleep: the membership test ...
CleanupCheck(s) ==
  /\ cleanup[s] = "sleeping"
  /\ cleanup' = [cleanup EXCEPT ![s] = IF s \in active_sessions THEN "del" ELSE "done"]
  /\ UNCHANGED <<issued, active_sessions, active_threads, queue, hist,
                 stop_event, auto_mode, tpc, status, cmds,
                 callsAfterStop, cmdsAfterStop, result, handlers,
                 orig_handlers, cpc, csid, lpc, lsid, received, early>>
  /\ UNCHANGED <<gvars, lvars, dvars, ovars>>

\* ... and the del, which raises KeyError when the key has gone meanwhile
CleanupDel(s) ==
  /\ cleanup[s] = "del"
  /\ IF s \in active_sessions
       THEN /\ active_sessions' = active_sessions \ {s}
            /\ cleanup' = [cleanup EXCEPT ![s] = "done"]
       ELSE /\ cleanup' = [cleanup EXCEPT ![s] = "keyerror"]
            /\ UNCHANGED active_sessions
  /\ UNCHANGED <<issued, active_threads, queue, hist, stop_event, auto_mode,
                 tpc, status, cmds, callsAfterStop, cmdsAfterStop,
                 result, handlers, orig_handlers, cpc, csid, lpc, lsid,
                 received, early>>
  /\ UNCHANGED <<gvars, lvars, dvars, ovars>>

\* The membership test both cancel_agent (line 530) and stream_logs (line
\* 315) start with: session_id in self.active_sessions
SessionRegisteredAlways(s) == TRUE

SessionRegistered(s) == s \in active_sessions

\* ------------------------------------------- POST /cancel-agent/<session>
cancelUnchanged == <<issued, auto_mode, tpc, status, cmds,
                     callsAfterStop, cmdsAfterStop, result, handlers,
                     orig_handlers, cleanup, lpc, lsid, received, early>>

\* The membership test of line 530: 404 for an id that is not registered
CancelStart(c, s) ==
  /\ cpc[c] = "idle"
  /\ s \in issued
  /\ csid' = [csid EXCEPT ![c] = s]
  /\ cpc' = [cpc EXCEPT ![c] = IF SessionRegistered(s) THEN "lookup" ELSE "r404"]
  /\ UNCHANGED <<active_sessions, active_threads, queue, hist, stop_event>>
  /\ UNCHANGED cancelUnchanged
  /\ UNCHANGED <<gvars, lvars, dvars, ovars>>

\* The lookup of the queue (KeyError, a 500 response, when the key has gone
\* since the test) and the put of the cancellation log
CancelPutLog(c) ==
  /\ cpc[c] = "lookup"
  /\ IF csid[c] \in active_sessions
       THEN /\ queue' = Put(queue, csid[c], Ev(hist, csid[c], "log", "cancel", c, "requested"))
            /\ hist' = Put(hist, csid[c], Ev(hist, csid[c], "log", "cancel", c, "requested"))
            /\ cpc' = [cpc EXCEPT ![c] = "chk_stop"]
       ELSE /\ cpc' = [cpc EXCEPT ![c] = "r500"]
            /\ UNCHANGED <<queue, hist>>
  /\ UNCHANGED <<active_sessions, active_threads, stop_event, csid>>
  /\ UNCHANGED cancelUnchanged
  /\ UNCHANGED <<gvars, lvars, dvars, ovars>>

\* if session_id in self.active_threads
CancelCheckThread(c) ==
  /\ cpc[c] = "chk_stop"
  /\ cpc' = [cpc EXCEPT ![c] = IF csid[c] \in active_threads THEN "set_stop" ELSE "put_result"]
  /\ UNCHANGED <<active_sessions, active_threads, queue, hist, stop_event, csid>>
  /\ UNCHANGED cancelUnchanged
  /\ UNCHANGED <<gvars, lvars, dvars, ovars>>

\* thread_info['stop_event'].set() and the bounded join: the join returns
\* when the thread has ended or after 0.5 s, so the handler's next step may
\* come after any number of steps of the thread, or none.
CancelSetStop(c) ==
  /\ cpc[c] = "set_stop"
  /\ IF csid[c] \in active_threads
       THEN /\ stop_event' = [stop_event EXCEPT ![csid[c]] = TRUE]
            /\ cpc' = [cpc EXCEPT ![c] = "put_result"]
       ELSE /\ cpc' = [cpc EXCEPT ![c] = "r500"]
            /\ UNCHANGED stop_event
  /\ UNCHANGED <<active_sessions, active_threads, queue, hist, csid>>
  /\ UNCHANGED cancelUnchanged
  /\ UNCHANGED <<gvars, lvars, dvars, ovars>>

CancelPutResult(c) ==
  /\ cpc[c] = "put_result"
  /\ queue' = Put(queue, csid[c], Ev(hist, csid[c], "result", "cancel", c, "cancelled"))
  /\ hist' = Put(hist, csid[c], Ev(hist, csid[c], "result", "cancel", c, "cancelled"))
  /\ cpc' = [cpc EXCEPT ![c] = "put_complete"]
  /\ UNCHANGED <<active_sessions, active_threads, stop_event, csid>>
  /\ UNCHANGED cancelUnchanged
  /\ UNCHANGED <<gvars, lvars, dvars, ovars>>

CancelPutComplete(c) ==
  /\ cpc[c] = "put_complete"
  /\ queue' = Put(queue, csid[c], Ev(hist, csid[c], "complete", "cancel", c, "cancelled"))
  /\ hist' = Put(hist, csid[c], Ev(hist, csid[c], "complete", "cancel", c, "cancelled"))
  /\ cpc' = [cpc EXCEPT ![c] = "chk_sessions"]
  /\ UNCHANGED <<active_sessions, active_threads, stop_event, csid>>
  /\ UNCHANGED cancelUnchanged
  /\ UNCHANGED <<gvars, lvars, dvars, ovars>>

\* if session_id in self.active_sessions
CancelCheckSessions(c) ==
  /\ cpc[c] = "chk_sessions"
  /\ cpc' = [cpc EXCEPT ![c] = IF csid[c] \in active_sessions THEN "del_sessions" ELSE "chk_threads"]
  /\ UNCHANGED <<active_sessions, active_threads, queue, hist, stop_event, csid>>
  /\ UNCHANGED cancelUnchanged
  /\ UNCHANGED <<gvars, lvars, dvars, ovars>>

\* del self.active_sessions[session_id]
CancelDelSessions(c) ==
  /\ cpc[c] = "del_sessions"
  /\ IF csid[c] \in active_sessions
       THEN /\ active_sessions' = active_sessions \ {csid[c]}
            /\ cpc' = [cpc EXCEPT ![c] = "chk_threads"]
       ELSE /\ cpc' = [cpc EXCEPT ![c] = "r500"]
            /\ UNCHANGED active_sessions
  /\ UNCHANGED <<active_threads, queue, hist, stop_event, csid>>
  /\ UNCHANGED cancelUnchanged
  /\ UNCHANGED <<gvars, lvars, dvars, ovars>>

\* if session_id in self.active_threads
CancelCheckThreads(c) ==
  /\ cpc[c] = "chk_threads"
  /\ cpc' = [cpc EXCEPT ![c] = IF csid[c] \in active_threads THEN "del_threads" ELSE "r200"]
  /\ UNCHANGED <<active_sessions, active_threads, queue, hist, stop_event, csid>>
  /\ UNCHANGED cancelUnchanged
  /\ UNCHANGED <<gvars, lvars, dvars, ovars>>

\* del self.active_threads[session_id], then the success response
CancelDelThreads(c) ==
  /\ cpc[c] = "del_threads"
  /\ IF csid[c] \in active_threads
       THEN /\ active_threads' = active_threads \ {csid[c]}
            /\ cpc' = [cpc EXCEPT ![c] = "r200"]
       ELSE /\ cpc' = [cpc EXCEPT ![c] = "r500"]
            /\ UNCHANGED active_threads
  /\ UNCHANGED <<active_sessions, queue, hist, stop_event, csid>>
  /\ UNCHANGED cancelUnchanged
  /\ UNCHANGED <<gvars, lvars, dvars, ovars>>

\* ------------------------------------------------- GET /logs/<session>
listenUnchanged == <<issued, active_sessions, active_threads, stop_event,
                     auto_mode, tpc, status, cmds, callsAfterStop,
                     cmdsAfterStop, result, handlers, orig_handlers, cleanup,
                     cpc, csid>>

\* The loop of s has not yet returned to run_agent_action
LoopRunning(s) == tpc[s] \in {"setup", "check", "decide", "exec"}

\* No cancel request for s has passed its membership test
NotCancelled(s) == \A c \in Cancellers : csid[c] # s

\* The membership test of line 315
StreamLogs(l, s) ==
  /\ lpc[l] = "idle"
  /\ s \in issued
  /\ lsid' = [lsid EXCEPT ![l] = s]
  /\ lpc' = [lpc EXCEPT ![l] = IF SessionRegistered(s) THEN "lookup" ELSE "r404"]
  /\ UNCHANGED <<queue, hist, received, early>>
  /\ UNCHANGED listenUnchanged
  /\ UNCHANGED <<gvars, lvars, dvars, ovars>>

\* The lookup of the queue (line 319) and the start of the generator
StreamLookup(l) ==
  /\ lpc[l] = "lookup"
  /\ IF lsid[l] \in active_sessions
       THEN /\ lpc' = [lpc EXCEPT ![l] = "streaming"]
            /\ early' = [early EXCEPT ![l] = LoopRunning(lsid[l]) /\ NotCancelled(lsid[l])]
       ELSE /\ lpc' = [lpc EXCEPT ![l] = "r500"]
            /\ UNCHANGED early
  /\ UNCHANGED <<queue, hist, lsid, received>>
  /\ UNCHANGED listenUnchanged
  /\ UNCHANGED <<gvars, lvars, dvars, ovars>>

\* generate(): log_queue.get returned a message. A message that does not
\* parse is logged and dropped; a parsed one is yielded, and the generator
\* ends after yielding a complete event.
GenerateGet(l) ==
  /\ lpc[l] = "streaming"
  /\ queue[lsid[l]] # <<>>
  /\ LET g == QGet(queue[lsid[l]]) IN
       /\ queue' = [queue EXCEPT ![lsid[l]] = g.rest]
       /\ IF ParsesAsJson(g.item)
            THEN /\ received' = [received EXCEPT ![l] = Append(@, g.item)]
                 /\ lpc' = [lpc EXCEPT ![l] = IF g.item.type = "complete" THEN "ended" ELSE "streaming"]
            ELSE UNCHANGED <<received, lpc>>
  /\ UNCHANGED <<hist, lsid, early>>
  /\ UNCHANGED listenUnchanged
  /\ UNCHANGED <<gvars, lvars, dvars, ovars>>

\* log_queue.get(timeout=1) raises queue.Empty: no message was on the queue
\* of the listener's session during the interval
GetTimesOutAlways(l) == TRUE

GetTimesOut(l) == queue[lsid[l]] = <<>>

\* generate(): log_queue.get timed out on an empty queue: a heartbeat is
\* yielded, and nothing of the server's state changes
GenerateHeartbeat(l) ==
  /\ lpc[l] = "streaming"
  /\ GetTimesOut(l)
  /\ UNCHANGED vars

MaxBeats == 1   \* heartbeats counted per listener under SpecStream

\* The same step with the yield of the heartbeat counted
GenerateHeartbeatYield(l) ==
  /\ lpc[l] = "streaming"
  /\ GetTimesOut(l)
  /\ beats[l] < MaxBeats
  /\ beats' = [beats EXCEPT ![l] = @ + 1]
  /\ UNCHANGED <<svars, req_body, req_reply, dvars, kvars, pvars, cvars, evars, uvars>>

\* ----------------------------------------------------------------- Specs
\* Spec: one session, its cancel requests and one listener
Next ==
  \/ \E s \in Sessions, auto \in BOOLEAN, started \in BOOLEAN : ApiRunAgent(s, auto, started)
  \/ \E s \in Sessions, raises \in BOOLEAN : ThreadSetup(s, raises)
  \/ \E s \in Sessions : AgentCheck(s)
  \/ \E s \in Sessions, reply \in Replies : AgentDecide(s, reply)
  \/ \E s \in Sessions, ok \in BOOLEAN : AgentExec(s, ok)
  \/ \E s \in Sessions : RunAgentTail(s)
  \/ \E s \in Sessions : ThreadExcResult(s)
  \/ \E s \in Sessions : ThreadFinally(s)
  \/ \E s \in Sessions : CleanupCheck(s)
  \/ \E s \in Sessions : CleanupDel(s)
  \/ \E c \in Cancellers, s \in Sessions : CancelStart(c, s)
  \/ \E c \in Cancellers : CancelPutLog(c)
  \/ \E c \in Cancellers : CancelCheckThread(c)
  \/ \E c \in Cancellers : CancelSetStop(c)
  \/ \E c \in Cancellers : CancelPutResult(c)
  \/ \E c \in Cancellers : CancelPutComplete(c)
  \/ \E c \in Cancellers : CancelCheckSessions(c)
  \/ \E c \in Cancellers : CancelDelSessions(c)
  \/ \E c \in Cancellers : CancelCheckThreads(c)
  \/ \E c \in Cancellers : CancelDelThreads(c)
  \/ \E l \in Listeners, s \in Sessions : StreamLogs(l, s)
  \/ \E l \in Listeners : StreamLookup(l)
  \/ \E l \in Listeners : GenerateGet(l)
  \/ \E l \in Listeners : GenerateHeartbeat(l)

Spec == Init /\ [][Next]_vars

\* SpecListeners: one session and several listeners on its stream
NextListeners ==
  \/ \E s \in Sessions, auto \in BOOLEAN, started \in BOOLEAN : ApiRunAgent(s, auto, started)
  \/ \E s \in Sessions, raises \in BOOLEAN : ThreadSetup(s, raises)
  \/ \E s \in Sessions : AgentCheck(s)
  \/ \E s \in Sessions, reply \in Replies : AgentDecide(s, reply)
  \/ \E s \in Sessions, ok \in BOOLEAN : AgentExec(s, ok)
  \/ \E s \in Sessions : RunAgentTail(s)
  \/ \E s \in Sessions : ThreadExcResult(s)
  \/ \E s \in Sessions : ThreadFinally(s)
  \/ \E s \in Sessions : CleanupCheck(s)
  \/ \E s \in Sessions : CleanupDel(s)
  \/ \E l \in Attachers, s \in Sessions : StreamLogs(l, s)
  \/ \E l \in Attachers : StreamLookup(l)
  \/ \E l \in Attachers : GenerateGet(l)
  \/ \E l \in Attachers : GenerateHeartbeat(l)

SpecListeners == Init /\ [][NextListeners]_vars

\* SpecLoops: several run-agent requests on the one Desktop of the server
NextLoops ==
  \/ \E s \in LoopSessions, auto \in BOOLEAN, started \in BOOLEAN : ApiRunAgent(s, auto, started)
  \/ \E s \in LoopSessions, raises \in BOOLEAN : ThreadSetup(s, raises)
  \/ \E s \in LoopSessions : AgentCheck(s)
  \/ \E s \in LoopSessions, reply \in Replies : AgentDecide(s, reply)
  \/ \E s \in LoopSessions, ok \in BOOLEAN : AgentExec(s, ok)
  \/ \E s \in LoopSessions : RunAgentTail(s)
  \/ \E s \in LoopSessions : ThreadExcResult(s)
  \/ \E s \in LoopSessions : ThreadFinally(s)
  \/ \E s \in LoopSessions : CleanupCheck(s)
  \/ \E s \in LoopSessions : CleanupDel(s)

SpecLoops == Init /\ [][NextLoops]_vars

\* SpecStream: one session and the generators of several listeners, with
\* the heartbeats they yield counted
NextStream ==
  \/ \E s \in Sessions, auto \in BOOLEAN, started \in BOOLEAN : ApiRunAgent(s, auto, started)
  \/ \E s \in Sessions, raises \in BOOLEAN : ThreadSetup(s, raises)
  \/ \E s \in Sessions : AgentCheck(s)
  \/ \E s \in Sessions, reply \in Replies : AgentDecide(s, reply)
  \/ \E s \in Sessions, ok \in BOOLEAN : AgentExec(s, ok)
  \/ \E s \in Sessions : RunAgentTail(s)
  \/ \E s \in Sessions : ThreadExcResult(s)
  \/ \E s \in Sessions : ThreadFinally(s)
  \/ \E s \in Sessions : CleanupCheck(s)
  \/ \E s \in Sessions : CleanupDel(s)
  \/ \E l \in Attachers, s \in Sessions : StreamLogs(l, s)
  \/ \E l \in Attachers : StreamLookup(l)
  \/ \E l \in Attachers : GenerateGet(l)
  \/ \E l \in Attachers : GenerateHeartbeatYield(l)

SpecStream == Init /\ [][NextStream]_vars

\* SpecRequests: the run-agent requests of any body and the one session
\* that is accepted
NextRequests ==
  \/ \E s \in Sessions, body \in Bodies, unsupported, auto, started \in BOOLEAN :
       ApiRunAgentRequest(s, body, unsupported, auto, started)
  \/ \E s \in Sessions, raises \in BOOLEAN : ThreadSetup(s, raises)
  \/ \E s \in Sessions : AgentCheck(s)
  \/ \E s \in Sessions, reply \in Replies : AgentDecide(s, reply)
  \/ \E s \in Sessions, ok \in BOOLEAN : AgentExec(s, ok)
  \/ \E s \in Sessions : RunAgentTail(s)
  \/ \E s \in Sessions : ThreadExcResult(s)
  \/ \E s \in Sessions : ThreadFinally(s)
  \/ \E s \in Sessions : CleanupCheck(s)
  \/ \E s \in Sessions : CleanupDel(s)

SpecRequests == Init /\ [][NextRequests]_vars

\* ------------------------------------------------- drivers of the agent
\* SpecDriver: one caller of desktop.action and the agent it drives. The
\* caller is handle_action of test/test.py in interactive mode (d_mode
\* "test") or the server handling one interactive run-agent request after
\* the other on its Desktop (d_mode "server"). The agent keeps a gated
\* action pending across calls (Desktop.action, desktop.py:307-325: the
\* acknowledgment is "only relevant if there's a pending call").
DriverInit ==
  /\ ServerInit
  /\ KeysIdle
  /\ PortsIdle({})
  /\ DesktopIdle(TRUE)
  /\ BoundaryIdle
  /\ ExecIdle
  /\ CleanupIdle
  /\ d_mode \in {"test", "server", "auto"}
  /\ h_pc = "start"
  /\ h_ack = FALSE
  /\ d_status = "none"
  /\ d_calls = 0
  /\ a_pc = "idle"
  /\ a_pending = FALSE
  /\ a_execs = 0
  /\ pendingExecs = 0
  /\ ackSupplied = FALSE
  /\ ackPassed = FALSE
  /\ unackedResumes = 0
  /\ autoGated = 0
  /\ autoExecs = 0

\* desktop.action is called with acknowledged_safety_checks = ack
CallAction(ack) ==
  /\ d_calls < MaxCalls
  /\ d_calls' = d_calls + 1
  /\ h_ack' = ack
  /\ h_pc' = "incall"
  /\ a_pc' = "entry"

\* The call returns status st to the driver
ActionReturns(st) ==
  /\ d_status' = st
  /\ h_pc' = "dispatch"
  /\ a_pc' = "idle"

\* Whether the call passes ignore_safety_and_input=True: the auto mode of
\* handle_action (test.py:28-31) and of run_agent_action (server.py:237-238)
IgnoreSafetyAndInputNever == FALSE

IgnoreSafetyAndInput == d_mode = "auto"

\* The first call: test.py:31 and test.py:37 pass no acknowledgment; the
\* server passes the request's safety_ack (server.py:245)
DriverStart ==
  /\ h_pc = "start"
  /\ CallAction(IF d_mode \in {"test", "auto"} THEN FALSE ELSE ActionAckArg(1))
  /\ UNCHANGED <<d_mode, d_status, a_pending, a_execs, pendingExecs,
                 ackSupplied, ackPassed, unackedResumes, avars>>
  /\ UNCHANGED <<svars, ovars>>

\* Whether the gated action may run: the call acknowledged it, or the
\* server's needs_safety_check_handler returned True
Acknowledged == h_ack \/ (d_mode = "server" /\ SafetyHandlerReturns)

\* The agent at the start of a call: a pending gated action is executed once
\* when the call acknowledges it and stays pending otherwise, in which case
\* the call returns NEEDS_SAFETY_CHECK again without executing anything.
AgentEntry ==
  /\ a_pc = "entry"
  /\ ackPassed' = (ackPassed \/ (a_pending /\ h_ack))
  /\ IF a_pending /\ Acknowledged
       THEN /\ pendingExecs' = pendingExecs + 1
            /\ a_pending' = FALSE
            /\ a_pc' = "loop"
            /\ UNCHANGED <<d_status, h_pc, unackedResumes>>
       ELSE IF a_pending
         THEN /\ ActionReturns("NEEDS_SAFETY_CHECK")
              /\ unackedResumes' = unackedResumes + 1
              /\ UNCHANGED <<a_pending, pendingExecs>>
         ELSE /\ a_pc' = "loop"
              /\ UNCHANGED <<d_status, h_pc, a_pending, pendingExecs, unackedResumes>>
  /\ UNCHANGED <<d_mode, h_ack, d_calls, a_execs, ackSupplied, avars>>
  /\ UNCHANGED <<svars, ovars>>

\* One turn of the agent inside a call: the decision service's reply ends
\* the call (final answer, request for input, failure, a gated action that
\* is not acknowledged) or proposes an action that is executed. With
\* ignore_safety_and_input a gated action is acknowledged by the loop itself
\* and executed, and a request for input ends the call in ERROR.
AgentTurn(reply) ==
  /\ a_pc = "loop"
  /\ CASE reply = "final" ->
            /\ ActionReturns("COMPLETE")
            /\ UNCHANGED <<a_pending, a_execs, pendingExecs, ackSupplied, ackPassed, unackedResumes, avars>>
       [] reply = "input" ->
            /\ ActionReturns(IF IgnoreSafetyAndInput THEN "ERROR" ELSE "NEEDS_INPUT")
            /\ UNCHANGED <<a_pending, a_execs, pendingExecs, ackSupplied, ackPassed, unackedResumes, avars>>
       [] reply = "fail" ->
            /\ ActionReturns("ERROR")
            /\ UNCHANGED <<a_pending, a_execs, pendingExecs, ackSupplied, ackPassed, unackedResumes, avars>>
       [] reply = "action" ->
            /\ a_execs < MaxActions
            /\ a_execs' = a_execs + 1
            /\ UNCHANGED <<d_status, h_pc, a_pc, a_pending, pendingExecs, ackSupplied, ackPassed, unackedResumes, avars>>
       [] reply = "gated" /\ IgnoreSafetyAndInput ->
            /\ autoGated < MaxActions
            /\ autoGated' = autoGated + 1
            /\ autoExecs' = autoExecs + 1
            /\ UNCHANGED <<d_status, h_pc, a_pc, a_pending, a_execs, pendingExecs, ackSupplied, ackPassed, unackedResumes>>
       [] reply = "gated" /\ ~IgnoreSafetyAndInput ->
            /\ autoGated' = autoGated + (IF d_mode = "auto" THEN 1 ELSE 0)
            /\ UNCHANGED autoExecs
            /\ ackSupplied' = FALSE
            /\ ackPassed' = FALSE
            /\ unackedResumes' = 0
            /\ IF d_mode = "server" /\ SafetyHandlerReturns
                 THEN /\ pendingExecs' = 1
                      /\ UNCHANGED <<d_status, h_pc, a_pc, a_pending, a_execs>>
                 ELSE /\ pendingExecs' = 0
                      /\ a_pending' = TRUE
                      /\ ActionReturns("NEEDS_SAFETY_CHECK")
                      /\ UNCHANGED a_execs
  /\ UNCHANGED <<d_mode, h_ack, d_calls>>
  /\ UNCHANGED <<svars, ovars>>

\* test.py:70: the reply that makes handle_action acknowledge
AcknowledgesAnyReply(reply) == reply # "exit"

Acknowledges(reply) == reply = "ack"

\* handle_action's dispatch on the returned status (test.py:39-82). On
\* NEEDS_INPUT the user's text is passed on without acknowledgment; on
\* NEEDS_SAFETY_CHECK the call is repeated with
\* acknowledged_safety_checks=True when the user typed "ack"; every other
\* reply and every other status ends handle_action.
HandleActionDispatch(reply) ==
  /\ d_mode = "test"
  /\ h_pc = "dispatch"
  /\ CASE d_status = "NEEDS_INPUT" /\ reply = "text" ->
            /\ CallAction(FALSE)
            /\ UNCHANGED ackSupplied
       [] d_status = "NEEDS_SAFETY_CHECK" /\ reply \in {"ack", "other"} ->
            /\ ackSupplied' = (ackSupplied \/ reply = "ack")
            /\ IF Acknowledges(reply)
                 THEN CallAction(TRUE)
                 ELSE /\ h_pc' = "done"
                      /\ UNCHANGED <<h_ack, d_calls, a_pc>>
       [] OTHER ->
            /\ h_pc' = "done"
            /\ UNCHANGED <<h_ack, d_calls, a_pc, ackSupplied>>
  /\ UNCHANGED <<d_mode, d_status, a_pending, a_execs, pendingExecs,
                 ackPassed, unackedResumes, avars>>
  /\ UNCHANGED <<svars, ovars>>

\* handle_action in auto mode returns whatever the one call returned
\* (test.py:32-34), as run_agent_action does (server.py:251-285)
HandleActionAuto ==
  /\ d_mode = "auto"
  /\ h_pc = "dispatch"
  /\ h_pc' = "done"
  /\ UNCHANGED <<d_mode, h_ack, d_status, d_calls, a_pc, a_pending, a_execs,
                 pendingExecs, ackSupplied, ackPassed, unackedResumes, avars>>
  /\ UNCHANGED <<svars, ovars>>

\* The server's next interactive run-agent request on the same Desktop.
\* bodyAck is the body carrying safety_acknowledged: the schema does not
\* define the field, so the load either rejects the body (400, no call) or
\* drops the field, depending on the marshmallow release. A body that is
\* accepted calls desktop.action with safety_ack, which is always False.
ServerNextRequest(bodyAck, rejected) ==
  /\ d_mode = "server"
  /\ h_pc = "dispatch"
  /\ rejected => bodyAck
  /\ ackSupplied' = (ackSupplied \/ (bodyAck /\ a_pending))
  /\ IF rejected
       THEN UNCHANGED <<h_pc, h_ack, d_calls, a_pc>>
       ELSE CallAction(ActionAckArg(1))
  /\ UNCHANGED <<d_mode, d_status, a_pending, a_execs, pendingExecs,
                 ackPassed, unackedResumes, avars>>
  /\ UNCHANGED <<svars, ovars>>

NextDriver ==
  \/ DriverStart
  \/ AgentEntry
  \/ \E reply \in Replies : AgentTurn(reply)
  \/ \E reply \in {"exit", "text", "ack", "other"} : HandleActionDispatch(reply)
  \/ HandleActionAuto
  \/ \E bodyAck, rejected \in BOOLEAN : ServerNextRequest(bodyAck, rejected)

SpecDriver == DriverInit /\ [][NextDriver]_vars

\* ------------------------------------------------------------- keypress
\* SpecKeys: one execution of keypress on a batch of key tokens, by the
\* sandbox API (api_server.py:154-194) or by Desktop.keypress
\* (desktop.py:192-231). Both run the same loop; they differ in what a
\* failing command does: execute_command raises HTTPException
\* (api_server.py:81-94), Desktop.exec returns the exit code, which keypress
\* ignores (desktop.py:131-142).
MaxKeys == 3

KeyTokens == {"CTRL", "ctrl", "SHIFT", "Enter", "space", "A"}

\* str.upper and str.lower on the tokens
Upper(k) ==
  CASE k \in {"CTRL", "ctrl"} -> "CTRL"
    [] k = "SHIFT" -> "SHIFT"
    [] k = "Enter" -> "ENTER"
    [] k = "space" -> "SPACE"
    [] k = "A" -> "A"

Lower(k) ==
  CASE k \in {"CTRL", "ctrl"} -> "ctrl"
    [] k = "SHIFT" -> "shift"
    [] k = "Enter" -> "enter"
    [] k = "space" -> "space"
    [] k = "A" -> "a"

KeyBatches == UNION {[1..n -> KeyTokens] : n \in 0..MaxKeys}

\* A dispatch that compares the modifier tokens with regard to case
KeyCommandCaseSensitive(k) ==
  IF k = "CTRL" THEN [op |-> "keydown", key |-> "ctrl"]
  ELSE IF k = "SHIFT" THEN [op |-> "keydown", key |-> "shift"]
  ELSE IF Lower(k) = "enter" THEN [op |-> "key", key |-> "Return"]
  ELSE IF Lower(k) = "space" THEN [op |-> "key", key |-> "space"]
  ELSE [op |-> "key", key |-> Lower(k)]

\* The xdotool command the loop issues for token k
KeyCommand(k) ==
  IF Upper(k) = "CTRL" THEN [op |-> "keydown", key |-> "ctrl"]
  ELSE IF Upper(k) = "SHIFT" THEN [op |-> "keydown", key |-> "shift"]
  ELSE IF Lower(k) = "enter" THEN [op |-> "key", key |-> "Return"]
  ELSE IF Lower(k) = "space" THEN [op |-> "key", key |-> "space"]
  ELSE [op |-> "key", key |-> Lower(k)]

\* Whether a failing command ends keypress with an exception
CommandFailureIgnored(impl) == FALSE

CommandFailureRaises(impl) == impl = "api"

\* The command cmd is issued with outcome ok
Issue(cmd, ok) == k_cmds' = Append(k_cmds, [op |-> cmd.op, key |-> cmd.key, ok |-> ok])

KeysInit ==
  /\ ServerInit
  /\ DriverIdle
  /\ PortsIdle({})
  /\ DesktopIdle(TRUE)
  /\ BoundaryIdle
  /\ ExecIdle
  /\ CleanupIdle
  /\ k_impl \in {"api", "desktop"}
  /\ k_keys \in KeyBatches
  /\ k_i = 1
  /\ k_pc = "loop"
  /\ k_cmds = <<>>
  /\ ctrl_pressed = FALSE
  /\ shift_pressed = FALSE

\* One iteration of "for k in keys": the command of token k_keys[k_i]
KeypressKey(ok) ==
  /\ k_pc = "loop"
  /\ k_i <= Len(k_keys)
  /\ Issue(KeyCommand(k_keys[k_i]), ok)
  /\ IF ~ok /\ CommandFailureRaises(k_impl)
       THEN /\ k_pc' = "raised"
            /\ UNCHANGED <<k_i, ctrl_pressed, shift_pressed>>
       ELSE /\ k_i' = k_i + 1
            /\ ctrl_pressed' = (ctrl_pressed \/ Upper(k_keys[k_i]) = "CTRL")
            /\ shift_pressed' = (shift_pressed \/ (Upper(k_keys[k_i]) # "CTRL" /\ Upper(k_keys[k_i]) = "SHIFT"))
            /\ UNCHANGED k_pc
  /\ UNCHANGED <<k_impl, k_keys>>
  /\ UNCHANGED <<svars, dvars, pvars, cvars, hvars, evars, uvars>>

\* The loop is over: "if ctrl_pressed:" and the keyup of ctrl
KeypressReleaseCtrl(ok) ==
  /\ k_pc = "loop"
  /\ k_i > Len(k_keys)
  /\ IF ctrl_pressed
       THEN /\ Issue([op |-> "keyup", key |-> "ctrl"], ok)
            /\ k_pc' = IF ~ok /\ CommandFailureRaises(k_impl) THEN "raised" ELSE "release_shift"
       ELSE /\ ok
            /\ k_pc' = "release_shift"
            /\ UNCHANGED k_cmds
  /\ UNCHANGED <<k_impl, k_keys, k_i, ctrl_pressed, shift_pressed>>
  /\ UNCHANGED <<svars, dvars, pvars, cvars, hvars, evars, uvars>>

\* "if shift_pressed:" and the keyup of shift, then keypress returns
KeypressReleaseShift(ok) ==
  /\ k_pc = "release_shift"
  /\ IF shift_pressed
       THEN /\ Issue([op |-> "keyup", key |-> "shift"], ok)
            /\ k_pc' = IF ~ok /\ CommandFailureRaises(k_impl) THEN "raised" ELSE "returned"
       ELSE /\ ok
            /\ k_pc' = "returned"
            /\ UNCHANGED k_cmds
  /\ UNCHANGED <<k_impl, k_keys, k_i, ctrl_pressed, shift_pressed>>
  /\ UNCHANGED <<svars, dvars, pvars, cvars, hvars, evars, uvars>>

NextKeys ==
  \/ \E ok \in BOOLEAN : KeypressKey(ok)
  \/ \E ok \in BOOLEAN : KeypressReleaseCtrl(ok)
  \/ \E ok \in BOOLEAN : KeypressReleaseShift(ok)

SpecKeys == KeysInit /\ [][NextKeys]_vars

\* ------------------------------------------------- POST /start-container
\* SpecPorts: the start-container requests of one server, each running
\* start_container_if_needed in its own Flask thread, and the relay
\* processes they start. The ports other processes hold are chosen at the
\* start and stay held.
PortsInit ==
  /\ ServerInit
  /\ DriverIdle
  /\ KeysIdle
  /\ DesktopIdle(TRUE)
  /\ BoundaryIdle
  /\ ExecIdle
  /\ CleanupIdle
  /\ \E ports \in SUBSET PortRange : PortsIdle(ports)

\* is_port_available: the bind succeeds when no process holds the port
is_port_available(port) == port \notin occupied

\* "for _ in range(max_attempts)": another probe follows n probes made
ProbesLeftShort(n) == n + 1 < MAX_PORT_ATTEMPTS

ProbesLeft(n) == n < MAX_PORT_ATTEMPTS

\* start_container_if_needed up to the call of find_available_port: the
\* Desktop is created and started. ok = FALSE is Desktop(...) or
\* desktop.start() raising, which the except clause turns into the return of
\* (logs, None).
StartContainerIfNeeded(r, ok) ==
  /\ r_pc[r] = "idle"
  /\ r_again' = [r_again EXCEPT ![r] =
       \E q \in Starters : r_pc[q] = "returned" /\ r_out[q] = "port" /\ relay[q] = "listening"]
  /\ IF ok
       THEN /\ r_pc' = [r_pc EXCEPT ![r] = "scan"]
            /\ current_port' = [current_port EXCEPT ![r] = NOVNC_BASE_PORT]
            /\ r_full' = [r_full EXCEPT ![r] = PortRange \subseteq occupied]
            /\ UNCHANGED r_out
       ELSE /\ r_pc' = [r_pc EXCEPT ![r] = "returned"]
            /\ r_out' = [r_out EXCEPT ![r] = "desktop_error"]
            /\ UNCHANGED <<current_port, r_full>>
  /\ UNCHANGED <<occupied, r_probes, r_ret, relay, novnc_port>>
  /\ UNCHANGED <<svars, dvars, kvars, cvars, hvars, evars, uvars>>

\* A scan that advances by two ports
FindAvailablePortSkips(r) ==
  /\ r_pc[r] = "scan"
  /\ r_probes' = [r_probes EXCEPT ![r] = Append(@, current_port[r])]
  /\ IF is_port_available(current_port[r])
       THEN /\ r_pc' = [r_pc EXCEPT ![r] = "popen"]
            /\ UNCHANGED <<current_port, r_out>>
       ELSE IF ProbesLeft(Len(r_probes[r]) + 1)
         THEN /\ current_port' = [current_port EXCEPT ![r] = @ + 2]
              /\ UNCHANGED <<r_pc, r_out>>
         ELSE /\ r_pc' = [r_pc EXCEPT ![r] = "returned"]
              /\ r_out' = [r_out EXCEPT ![r] = "exhausted"]
              /\ UNCHANGED current_port
  /\ UNCHANGED <<occupied, r_full, r_again, r_ret, relay, novnc_port>>
  /\ UNCHANGED <<svars, dvars, kvars, cvars, hvars, evars, uvars>>

\* One iteration of the loop of find_available_port: current_port is probed
\* and returned when available; otherwise the next port is tried, and after
\* the last attempt PortNotAvailableError is raised, which
\* start_container_if_needed turns into the return of (logs, None).
FindAvailablePortProbe(r) ==
  /\ r_pc[r] = "scan"
  /\ r_probes' = [r_probes EXCEPT ![r] = Append(@, current_port[r])]
  /\ IF is_port_available(current_port[r])
       THEN /\ r_pc' = [r_pc EXCEPT ![r] = "popen"]
            /\ UNCHANGED <<current_port, r_out>>
       ELSE IF ProbesLeft(Len(r_probes[r]) + 1)
         THEN /\ current_port' = [current_port EXCEPT ![r] = @ + 1]
              /\ UNCHANGED <<r_pc, r_out>>
         ELSE /\ r_pc' = [r_pc EXCEPT ![r] = "returned"]
              /\ r_out' = [r_out EXCEPT ![r] = "exhausted"]
              /\ UNCHANGED current_port
  /\ UNCHANGED <<occupied, r_full, r_again, r_ret, relay, novnc_port>>
  /\ UNCHANGED <<svars, dvars, kvars, cvars, hvars, evars, uvars>>

\* subprocess.Popen of websockify on the port found, and the assignment of
\* self.novnc_process and self.novnc_port. Popen returns before the relay
\* binds. ok = FALSE is Popen raising.
StartNovncServer(r, ok) ==
  /\ r_pc[r] = "popen"
  /\ IF ok
       THEN /\ relay' = [relay EXCEPT ![r] = "starting"]
            /\ novnc_port' = current_port[r]
            /\ r_pc' = [r_pc EXCEPT ![r] = "return"]
            /\ UNCHANGED r_out
       ELSE /\ r_pc' = [r_pc EXCEPT ![r] = "returned"]
            /\ r_out' = [r_out EXCEPT ![r] = "popen_error"]
            /\ UNCHANGED <<relay, novnc_port>>
  /\ UNCHANGED <<occupied, current_port, r_probes, r_full, r_again, r_ret>>
  /\ UNCHANGED <<svars, dvars, kvars, cvars, hvars, evars, uvars>>

\* return logs, self.novnc_port
ReturnNovncPort(r) ==
  /\ r_pc[r] = "return"
  /\ r_ret' = [r_ret EXCEPT ![r] = novnc_port]
  /\ r_out' = [r_out EXCEPT ![r] = "port"]
  /\ r_pc' = [r_pc EXCEPT ![r] = "returned"]
  /\ UNCHANGED <<occupied, current_port, r_probes, r_full, r_again, relay, novnc_port>>
  /\ UNCHANGED <<svars, dvars, kvars, cvars, hvars, evars, uvars>>

\* The relay process binds its port, or exits when the port is held
RelayBind(r) ==
  /\ relay[r] = "starting"
  /\ IF current_port[r] \in occupied
       THEN /\ relay' = [relay EXCEPT ![r] = "exited"]
            /\ UNCHANGED occupied
       ELSE /\ relay' = [relay EXCEPT ![r] = "listening"]
            /\ occupied' = occupied \cup {current_port[r]}
  /\ UNCHANGED <<r_pc, current_port, r_probes, r_full, r_again, r_out, r_ret, novnc_port>>
  /\ UNCHANGED <<svars, dvars, kvars, cvars, hvars, evars, uvars>>

NextPorts ==
  \/ \E r \in Starters, ok \in BOOLEAN : StartContainerIfNeeded(r, ok)
  \/ \E r \in Starters : FindAvailablePortProbe(r)
  \/ \E r \in Starters, ok \in BOOLEAN : StartNovncServer(r, ok)
  \/ \E r \in Starters : ReturnNovncPort(r)
  \/ \E r \in Starters : RelayBind(r)

SpecPorts == PortsInit /\ [][NextPorts]_vars

\* -------------------------------------------- Desktop.start, Desktop.stop
\* SpecDesktop: callers of Desktop.start and Desktop.stop on one container
\* name (Desktop objects of one or of several processes), interleaved at
\* every request to the Docker daemon. The daemon keeps at most one
\* container per name: creating a second one is refused with a conflict.
DesktopInit ==
  /\ ServerInit
  /\ DriverIdle
  /\ KeysIdle
  /\ PortsIdle({})
  /\ BoundaryIdle
  /\ ExecIdle
  /\ CleanupIdle
  /\ \E img \in BOOLEAN : DesktopIdle(img)

\* Caller p begins the call op
BeginCall(p, op) ==
  /\ t_pc[p] = "idle"
  /\ t_n[p] < MaxOps
  /\ t_n' = [t_n EXCEPT ![p] = @ + 1]
  /\ t_op' = [t_op EXCEPT ![p] = op]
  /\ t_prev' = [t_prev EXCEPT ![p] = last_started]
  /\ t_created0' = [t_created0 EXCEPT ![p] = created]
  /\ t_pulls' = [t_pulls EXCEPT ![p] = <<>>]
  /\ t_alone' = [x \in Callers |->
                   IF x = p THEN \A q \in Callers \ {p} : t_pc[q] = "idle"
                   ELSE IF t_pc[x] # "idle" THEN FALSE ELSE t_alone[x]]

\* start returns the container id
StartReturns(p, id) ==
  /\ t_pc' = [t_pc EXCEPT ![p] = "idle"]
  /\ t_out' = [t_out EXCEPT ![p] = "returned"]
  /\ t_why' = [t_why EXCEPT ![p] = "none"]
  /\ t_ret' = [t_ret EXCEPT ![p] = id]
  /\ t_handle' = [t_handle EXCEPT ![p] = id]
  /\ last_started' = id

\* The call of p ends with an exception that start or stop does not catch
CallRaises(p, why) ==
  /\ t_pc' = [t_pc EXCEPT ![p] = "idle"]
  /\ t_out' = [t_out EXCEPT ![p] = "raised"]
  /\ t_why' = [t_why EXCEPT ![p] = why]

\* stop returns
StopReturns(p) ==
  /\ t_pc' = [t_pc EXCEPT ![p] = "idle"]
  /\ t_out' = [t_out EXCEPT ![p] = "returned"]
  /\ t_why' = [t_why EXCEPT ![p] = "none"]
  /\ last_started' = 0

\* containers.run refuses a name that is in use
NameInUse == c_state # "absent"

\* containers.get(name) finds the container of the name
GetFindsNothing == FALSE

GetFinds == c_state # "absent"

\* start: containers.get(name) and the test of container.status. A running
\* container is returned as it is; NotFound leads to the creation.
DesktopStartGet(p) ==
  /\ BeginCall(p, "start")
  /\ IF ~GetFinds
       THEN /\ t_pc' = [t_pc EXCEPT ![p] = "pull"]
            /\ UNCHANGED <<t_handle, t_out, t_why, t_ret, last_started>>
       ELSE IF c_state = "running"
         THEN StartReturns(p, c_id)
         ELSE /\ t_pc' = [t_pc EXCEPT ![p] = "container_start"]
              /\ t_handle' = [t_handle EXCEPT ![p] = c_id]
              /\ UNCHANGED <<t_out, t_why, t_ret, last_started>>
  /\ UNCHANGED <<c_state, c_id, created, image_local>>
  /\ UNCHANGED <<svars, dvars, kvars, pvars, hvars, evars, uvars>>

\* start: container.start() on the container found; NotFound, when it has
\* been removed meanwhile, leads to the creation
DesktopContainerStart(p) ==
  /\ t_pc[p] = "container_start"
  /\ IF c_id = t_handle[p]
       THEN /\ c_state' = "running"
            /\ StartReturns(p, t_handle[p])
       ELSE /\ t_pc' = [t_pc EXCEPT ![p] = "pull"]
            /\ UNCHANGED <<c_state, t_handle, t_out, t_why, t_ret, last_started>>
  /\ UNCHANGED <<c_id, created, image_local, t_op, t_n, t_prev, t_alone, t_created0,
                 t_pulls>>
  /\ UNCHANGED <<svars, dvars, kvars, pvars, hvars, evars, uvars>>

\* An images.pull whose APIError is not caught
DesktopPullAborts(p, ok) ==
  /\ t_pc[p] = "pull"
  /\ t_pulls' = [t_pulls EXCEPT ![p] = Append(@, ok)]
  /\ IF ok
       THEN /\ image_local' = TRUE
            /\ t_pc' = [t_pc EXCEPT ![p] = "run"]
            /\ UNCHANGED <<t_out, t_why>>
       ELSE /\ CallRaises(p, "image")
            /\ UNCHANGED image_local
  /\ UNCHANGED <<c_state, c_id, created, t_op, t_n, t_handle, t_ret, t_prev,
                 t_alone, t_created0, last_started>>
  /\ UNCHANGED <<svars, dvars, kvars, pvars, hvars, evars, uvars>>

\* start: images.pull; its APIError is caught and ignored
DesktopPull(p, ok) ==
  /\ t_pc[p] = "pull"
  /\ image_local' = (image_local \/ ok)
  /\ t_pulls' = [t_pulls EXCEPT ![p] = Append(@, ok)]
  /\ t_pc' = [t_pc EXCEPT ![p] = "run"]
  /\ UNCHANGED <<c_state, c_id, created, t_op, t_n, t_handle, t_out, t_why,
                 t_ret, t_prev, t_alone, t_created0, last_started>>
  /\ UNCHANGED <<svars, dvars, kvars, pvars, hvars, evars, uvars>>

\* containers.run(image, name=...): a conflict on the name is an APIError
\* that start does not catch; without the image ImageNotFound is raised
RunContainer(p, onImageNotFound) ==
  IF NameInUse
    THEN /\ CallRaises(p, "conflict")
         /\ UNCHANGED <<c_state, c_id, created, t_handle, t_ret, last_started>>
    ELSE IF image_local
      THEN /\ created' = created + 1
           /\ c_id' = created + 1
           /\ c_state' = "running"
           /\ StartReturns(p, created + 1)
      ELSE /\ onImageNotFound
           /\ UNCHANGED <<c_state, c_id, created, t_handle, t_ret, last_started>>

\* start: the first containers.run; ImageNotFound leads to the second pull
DesktopRun(p) ==
  /\ t_pc[p] = "run"
  /\ RunContainer(p, /\ t_pc' = [t_pc EXCEPT ![p] = "pull_again"]
                     /\ UNCHANGED <<t_out, t_why>>)
  /\ UNCHANGED <<image_local, t_op, t_n, t_prev, t_alone, t_created0,
                 t_pulls>>
  /\ UNCHANGED <<svars, dvars, kvars, pvars, hvars, evars, uvars>>

\* start: the second images.pull; its APIError is raised as RuntimeError
DesktopPullAgain(p, ok) ==
  /\ t_pc[p] = "pull_again"
  /\ t_pulls' = [t_pulls EXCEPT ![p] = Append(@, ok)]
  /\ IF ok
       THEN /\ image_local' = TRUE
            /\ t_pc' = [t_pc EXCEPT ![p] = "run_again"]
            /\ UNCHANGED <<t_out, t_why>>
       ELSE /\ CallRaises(p, "image")
            /\ UNCHANGED image_local
  /\ UNCHANGED <<c_state, c_id, created, t_op, t_n, t_handle, t_ret, t_prev,
                 t_alone, t_created0, last_started>>
  /\ UNCHANGED <<svars, dvars, kvars, pvars, hvars, evars, uvars>>

\* start: the second containers.run, outside any try
DesktopRunAgain(p) ==
  /\ t_pc[p] = "run_again"
  /\ RunContainer(p, CallRaises(p, "image"))
  /\ UNCHANGED <<image_local, t_op, t_n, t_prev, t_alone, t_created0,
                 t_pulls>>
  /\ UNCHANGED <<svars, dvars, kvars, pvars, hvars, evars, uvars>>

\* stop: containers.get(name); NotFound is caught and stop returns
DesktopStopGet(p) ==
  /\ BeginCall(p, "stop")
  /\ IF ~GetFinds
       THEN /\ StopReturns(p)
            /\ UNCHANGED t_handle
       ELSE /\ t_pc' = [t_pc EXCEPT ![p] = "container_stop"]
            /\ t_handle' = [t_handle EXCEPT ![p] = c_id]
            /\ last_started' = 0
            /\ UNCHANGED <<t_out, t_why>>
  /\ UNCHANGED <<c_state, c_id, created, image_local, t_ret>>
  /\ UNCHANGED <<svars, dvars, kvars, pvars, hvars, evars, uvars>>

\* stop: container.stop()
DesktopContainerStop(p) ==
  /\ t_pc[p] = "container_stop"
  /\ IF c_id = t_handle[p]
       THEN /\ c_state' = "stopped"
            /\ t_pc' = [t_pc EXCEPT ![p] = "container_remove"]
            /\ UNCHANGED <<t_out, t_why, last_started>>
       ELSE /\ StopReturns(p)
            /\ UNCHANGED c_state
  /\ UNCHANGED <<c_id, created, image_local, t_op, t_n, t_handle, t_ret,
                 t_prev, t_alone, t_created0,
                 t_pulls>>
  /\ UNCHANGED <<svars, dvars, kvars, pvars, hvars, evars, uvars>>

\* stop: container.remove(); the daemon refuses to remove a container that
\* is running again, an APIError stop does not catch
DesktopContainerRemove(p) ==
  /\ t_pc[p] = "container_remove"
  /\ IF c_id # t_handle[p]
       THEN /\ StopReturns(p)
            /\ UNCHANGED <<c_state, c_id>>
       ELSE IF c_state = "running"
         THEN /\ CallRaises(p, "running")
              /\ UNCHANGED <<c_state, c_id, last_started>>
         ELSE /\ c_state' = "absent"
              /\ c_id' = 0
              /\ StopReturns(p)
  /\ UNCHANGED <<created, image_local, t_op, t_n, t_handle, t_ret, t_prev,
                 t_alone, t_created0,
                 t_pulls>>
  /\ UNCHANGED <<svars, dvars, kvars, pvars, hvars, evars, uvars>>

NextDesktop ==
  \/ \E p \in Callers : DesktopStartGet(p)
  \/ \E p \in Callers : DesktopContainerStart(p)
  \/ \E p \in Callers, ok \in BOOLEAN : DesktopPull(p, ok)
  \/ \E p \in Callers : DesktopRun(p)
  \/ \E p \in Callers, ok \in BOOLEAN : DesktopPullAgain(p, ok)
  \/ \E p \in Callers : DesktopRunAgain(p)
  \/ \E p \in Callers : DesktopStopGet(p)
  \/ \E p \in Callers : DesktopContainerStop(p)
  \/ \E p \in Callers : DesktopContainerRemove(p)

SpecDesktop == DesktopInit /\ [][NextDesktop]_vars

\* ------------------------------------------------ the action vocabulary
\* SpecExec: one action request, given to the dedicated endpoint of the
\* sandbox API (run "endpoint"), to its generic /action endpoint (run
\* "action") and to the method of Desktop (run "desktop"). An optional
\* field of the request is a set: empty when the field is absent (None),
\* otherwise holding its value. The command e_failat of each run fails in
\* the sandbox.
MaxFailAt == 2

Vocabulary == {"click", "scroll", "keypress", "type", "wait", "navigate", "screenshot"}

ExecRequests ==
  LET R(t, x, y, b, sx, sy, k, tx, sec, u) ==
        [type |-> t, x |-> x, y |-> y, button |-> b, scroll_x |-> sx,
         scroll_y |-> sy, keys |-> k, text |-> tx, seconds |-> sec, url |-> u]
      Xs == {{}, {0}, {100}}
      Ds == {{}, {-100}, {0}, {100}, {300}}
  IN  {R("click", x, {200}, b, {}, {}, {}, {}, {}, {}) :
         x \in Xs, b \in {{}, {""}, {"left"}, {"LEFT"}, {"Right"}, {"middle"}, {"wheel"}, {"bogus"}}}
      \cup {R("scroll", x, {200}, {}, sx, sy, {}, {}, {}, {}) : x \in Xs, sx \in Ds, sy \in Ds}
      \cup {R("keypress", {}, {}, {}, {}, {}, k, {}, {}, {}) : k \in {{}, {<<>>}, {<<"CTRL", "A">>}}}
      \cup {R("type", {}, {}, {}, {}, {}, {}, tx, {}, {}) : tx \in {{}, {""}, {"hi"}}}
      \cup {R("wait", {}, {}, {}, {}, {}, {}, {}, sec, {}) : sec \in {{}, {0}, {2}, {5}}}
      \cup {R(t, {}, {}, {}, {}, {}, {}, {}, {}, u) : t \in {"navigate", "goto"}, u \in {{}, {"u"}}}
      \cup {R(t, {}, {}, {}, {}, {}, {}, {}, {}, {}) : t \in {"screenshot", "bogus"}}

\* The value of a field that is present
Val(opt) == CHOOSE v \in opt : TRUE

\* A parameter default (of the pydantic model or of the Python signature):
\* used when the field is absent
Default(opt, d) == IF opt = {} THEN d ELSE Val(opt)

\* Python's "opt or d": d replaces None and the falsy value zero
OrElse(opt, zero, d) == IF opt = {} \/ opt = {zero} THEN d ELSE Val(opt)

\* The entry point answers with status code c and calls nothing
Reject(c) == [NoArgs EXCEPT !.fn = "reject", !.code = c]

\* The dedicated endpoints api_click .. api_screenshot: the request model
\* fills the defaults and refuses a missing required field (422); there is
\* no endpoint for another type (404)
EndpointArgs(req) ==
  CASE req.type = "click" ->
         IF req.x = {} \/ req.y = {} THEN Reject(422)
         ELSE [NoArgs EXCEPT !.fn = "click", !.x = Val(req.x), !.y = Val(req.y),
                             !.button = Default(req.button, "left")]
    [] req.type = "scroll" ->
         IF req.x = {} \/ req.y = {} THEN Reject(422)
         ELSE [NoArgs EXCEPT !.fn = "scroll", !.x = Val(req.x), !.y = Val(req.y),
                             !.scroll_x = Default(req.scroll_x, 0),
                             !.scroll_y = Default(req.scroll_y, 0)]
    [] req.type = "keypress" ->
         IF req.keys = {} THEN Reject(422)
         ELSE [NoArgs EXCEPT !.fn = "keypress", !.keys = Val(req.keys)]
    [] req.type = "type" ->
         IF req.text = {} THEN Reject(422)
         ELSE [NoArgs EXCEPT !.fn = "type_text", !.text = Val(req.text)]
    [] req.type = "wait" ->
         [NoArgs EXCEPT !.fn = "wait", !.seconds = Default(req.seconds, 2)]
    [] req.type = "screenshot" -> [NoArgs EXCEPT !.fn = "take_screenshot"]
    [] OTHER -> Reject(404)

\* api_action: the dispatch on action.type
ActionArgs(req) ==
  CASE req.type = "click" ->
         IF req.x = {} \/ req.y = {} THEN Reject(400)
         ELSE [NoArgs EXCEPT !.fn = "click", !.x = Val(req.x), !.y = Val(req.y),
                             !.button = OrElse(req.button, "", "left")]
    [] req.type = "scroll" ->
         IF req.x = {} \/ req.y = {} THEN Reject(400)
         ELSE [NoArgs EXCEPT !.fn = "scroll", !.x = Val(req.x), !.y = Val(req.y),
                             !.scroll_x = OrElse(req.scroll_x, 0, 0),
                             !.scroll_y = OrElse(req.scroll_y, 0, 0)]
    [] req.type = "keypress" ->
         IF req.keys = {} \/ req.keys = {<<>>} THEN Reject(400)
         ELSE [NoArgs EXCEPT !.fn = "keypress", !.keys = Val(req.keys)]
    [] req.type = "type" ->
         IF req.text = {} THEN Reject(400)
         ELSE [NoArgs EXCEPT !.fn = "type_text", !.text = Val(req.text)]
    [] req.type = "wait" ->
         [NoArgs EXCEPT !.fn = "wait", !.seconds = OrElse(req.seconds, 0, 2)]
    [] req.type = "screenshot" -> [NoArgs EXCEPT !.fn = "take_screenshot"]
    [] req.type = "goto" ->
         IF req.url = {} THEN Reject(400)
         ELSE [NoArgs EXCEPT !.fn = "goto", !.url = Val(req.url)]
    [] OTHER -> Reject(400)

\* The methods of Desktop: click, scroll, keypress, type_text and
\* get_screenshot, with the defaults of their signatures; no call can be
\* made without a positional argument, and there is no method for another
\* type
DesktopArgs(req) ==
  CASE req.type = "click" /\ req.x # {} /\ req.y # {} ->
         [NoArgs EXCEPT !.fn = "click", !.x = Val(req.x), !.y = Val(req.y),
                        !.button = Default(req.button, "left")]
    [] req.type = "scroll" /\ req.x # {} /\ req.y # {} ->
         [NoArgs EXCEPT !.fn = "scroll", !.x = Val(req.x), !.y = Val(req.y),
                        !.scroll_x = Default(req.scroll_x, 0),
                        !.scroll_y = Default(req.scroll_y, 0)]
    [] req.type = "keypress" /\ req.keys # {} ->
         [NoArgs EXCEPT !.fn = "keypress", !.keys = Val(req.keys)]
    [] req.type = "type" /\ req.text # {} ->
         [NoArgs EXCEPT !.fn = "type_text", !.text = Val(req.text)]
    [] req.type = "screenshot" -> [NoArgs EXCEPT !.fn = "take_screenshot"]
    [] OTHER -> NoArgs

\* One command: an xdotool invocation, the capture, the browser launch, or
\* the sleep of wait
Cmd(op, x, y, n, arg) == [op |-> op, x |-> x, y |-> y, n |-> n, arg |-> arg]

\* str.lower on the button strings
ButtonLowerNot(b) == b

ButtonLower(b) ==
  CASE b = "LEFT" -> "left"
    [] b = "Right" -> "right"
    [] OTHER -> b

\* button_map.get(button.lower(), 1)
ButtonNumber(b) ==
  CASE ButtonLower(b) = "left" -> 1
    [] ButtonLower(b) \in {"middle", "wheel"} -> 2
    [] ButtonLower(b) = "right" -> 3
    [] OTHER -> 1

\* The button of the ticks of one axis: 4 up, 5 down, 6 left, 7 right
TickButtonSwapped(axis, delta) ==
  IF axis = "y" THEN (IF delta < 0 THEN 5 ELSE 4) ELSE (IF delta < 0 THEN 7 ELSE 6)

TickButton(axis, delta) ==
  IF axis = "y" THEN (IF delta < 0 THEN 4 ELSE 5) ELSE (IF delta < 0 THEN 6 ELSE 7)

\* The ticks of one axis: none for a delta of 0, otherwise a fixed number
\* (range(3) in api_server.py, range(4) in desktop.py)
Ticks(ep, axis, delta) ==
  IF delta = 0 THEN <<>>
  ELSE [i \in 1..(IF ep = "desktop" THEN 4 ELSE 3) |->
          Cmd("click", 0, 0, TickButton(axis, delta), "")]

\* The commands of keypress on a batch of tokens
KeypressPlan(keys) ==
  [i \in 1..Len(keys) |-> Cmd(KeyCommand(keys[i]).op, 0, 0, 0, KeyCommand(keys[i]).key)]
    \o (IF \E i \in 1..Len(keys) : Upper(keys[i]) = "CTRL"
          THEN <<Cmd("keyup", 0, 0, 0, "ctrl")>> ELSE <<>>)
    \o (IF \E i \in 1..Len(keys) : Upper(keys[i]) = "SHIFT"
          THEN <<Cmd("keyup", 0, 0, 0, "shift")>> ELSE <<>>)

\* The commands the function a.fn issues when every command succeeds
Plan(ep, a) ==
  CASE a.fn = "click" -> <<Cmd("mousemove_click", a.x, a.y, ButtonNumber(a.button), "")>>
    [] a.fn = "scroll" ->
         <<Cmd("mousemove", a.x, a.y, 0, "")>>
           \o Ticks(ep, "y", a.scroll_y) \o Ticks(ep, "x", a.scroll_x)
    [] a.fn = "keypress" -> KeypressPlan(a.keys)
    [] a.fn = "type_text" -> <<Cmd("type", 0, 0, 0, a.text)>>
    [] a.fn = "wait" -> <<Cmd("sleep", 0, 0, a.seconds, "")>>
    [] a.fn = "take_screenshot" -> <<Cmd("import", 0, 0, 0, "")>>
    [] a.fn = "goto" -> <<Cmd("firefox", 0, 0, 0, a.url)>>
    [] OTHER -> <<>>

ExecInit ==
  /\ ServerInit
  /\ DriverIdle
  /\ KeysIdle
  /\ PortsIdle({})
  /\ DesktopIdle(TRUE)
  /\ BoundaryIdle
  /\ CleanupIdle
  /\ e_req \in ExecRequests
  /\ e_failat \in 0..MaxFailAt
  /\ e_pc = [ep \in Runs |-> "start"]
  /\ e_args = [ep \in Runs |-> NoArgs]
  /\ e_cmds = [ep \in Runs |-> <<>>]
  /\ e_resp = [ep \in Runs |-> [code |-> 0, status |-> "none"]]

\* The run ends with the response or outcome r
ExecEnds(ep, code, st) ==
  /\ e_pc' = [e_pc EXCEPT ![ep] = "done"]
  /\ e_resp' = [e_resp EXCEPT ![ep] = [code |-> code, status |-> st]]

\* The entry point receives the request: it answers with an error status, or
\* calls the function of the request's type
ExecCall(ep) ==
  /\ e_pc[ep] = "start"
  /\ LET a == CASE ep = "endpoint" -> EndpointArgs(e_req)
                [] ep = "action" -> ActionArgs(e_req)
                [] ep = "desktop" -> DesktopArgs(e_req)
     IN /\ e_args' = [e_args EXCEPT ![ep] = a]
        /\ IF a.fn = "reject" THEN ExecEnds(ep, a.code, "error")
           ELSE IF a.fn = "none" THEN ExecEnds(ep, 0, "none")
           ELSE /\ e_pc' = [e_pc EXCEPT ![ep] = "run"]
                /\ UNCHANGED e_resp
  /\ UNCHANGED <<e_req, e_failat, e_cmds>>
  /\ UNCHANGED <<svars, dvars, kvars, pvars, cvars, hvars, uvars>>

\* The function issues its next command. A failing command raises
\* HTTPException in execute_command, which ends the function except in
\* take_screenshot, whose except clause returns a result with status error;
\* Desktop.exec returns the exit code, which the methods ignore, while
\* get_screenshot raises RuntimeError on a non-zero return code. The sleep
\* of wait does not fail.
ExecCommand(ep) ==
  /\ e_pc[ep] = "run"
  /\ Len(e_cmds[ep]) < Len(Plan(ep, e_args[ep]))
  /\ LET c == Plan(ep, e_args[ep])[Len(e_cmds[ep]) + 1]
         ok == c.op = "sleep" \/ Len(e_cmds[ep]) + 1 # e_failat
     IN /\ e_cmds' = [e_cmds EXCEPT ![ep] = Append(@, [cmd |-> c, ok |-> ok])]
        /\ IF ok THEN UNCHANGED <<e_pc, e_resp>>
           ELSE IF e_args[ep].fn = "take_screenshot"
             THEN IF ep = "desktop"
                    THEN ExecEnds(ep, 0, "raised")
                    ELSE ExecEnds(ep, 200, "error")
             ELSE IF CommandFailureRaises(IF ep = "desktop" THEN "desktop" ELSE "api")
                    THEN ExecEnds(ep, 500, "error")
                    ELSE UNCHANGED <<e_pc, e_resp>>
  /\ UNCHANGED <<e_req, e_failat, e_args>>
  /\ UNCHANGED <<svars, dvars, kvars, pvars, cvars, hvars, uvars>>

\* Every command was issued: the function returns its success result (the
\* methods of Desktop return their value)
ExecReturn(ep) ==
  /\ e_pc[ep] = "run"
  /\ Len(e_cmds[ep]) = Len(Plan(ep, e_args[ep]))
  /\ IF ep = "desktop" THEN ExecEnds(ep, 0, "returned") ELSE ExecEnds(ep, 200, "success")
  /\ UNCHANGED <<e_req, e_failat, e_args, e_cmds>>
  /\ UNCHANGED <<svars, dvars, kvars, pvars, cvars, hvars, uvars>>

NextExec ==
  \/ \E ep \in Runs : ExecCall(ep)
  \/ \E ep \in Runs : ExecCommand(ep)
  \/ \E ep \in Runs : ExecReturn(ep)

SpecExec == ExecInit /\ [][NextExec]_vars

\* ------------------------------------------------------------- shutdown
\* SpecCleanup: the server shuts down, with or without a relay process and
\* a Desktop, and cleanup is called up to twice.
MaxCleanups == 2

CleanupInit ==
  /\ ServerInit
  /\ DriverIdle
  /\ KeysIdle
  /\ PortsIdle({})
  /\ DesktopIdle(TRUE)
  /\ BoundaryIdle
  /\ ExecIdle
  /\ u_process \in {"none", "running", "exited"}
  /\ u_desktop \in BOOLEAN
  /\ u_container \in {"absent", "running"}
  /\ u_pc = "idle"
  /\ u_calls = 0
  /\ u_stops = 0
  /\ u_fails = 0
  /\ u_log = <<>>

\* cleanup is called: by the finally clause of run, then by the finally
\* clause of the main block
CleanupBegin ==
  /\ u_pc \in {"idle", "returned"}
  /\ u_calls < MaxCleanups
  /\ u_calls' = u_calls + 1
  /\ u_pc' = "terminate"
  /\ u_log' = Append(u_log, "cleaning")
  /\ UNCHANGED <<u_process, u_desktop, u_container, u_stops, u_fails>>
  /\ UNCHANGED <<svars, dvars, kvars, pvars, cvars, hvars, evars>>

\* A terminate whose exception leaves cleanup
CleanupTerminateRaises(fails) ==
  /\ u_pc = "terminate"
  /\ IF u_process = "none"
       THEN /\ ~fails
            /\ u_pc' = "stop"
            /\ UNCHANGED <<u_process, u_fails, u_log>>
       ELSE IF fails
         THEN /\ u_fails' = u_fails + 1
              /\ u_pc' = "raised"
              /\ UNCHANGED <<u_process, u_log>>
         ELSE /\ u_process' = "exited"
              /\ u_log' = Append(u_log, "terminated")
              /\ u_pc' = "stop"
              /\ UNCHANGED u_fails
  /\ UNCHANGED <<u_desktop, u_container, u_calls, u_stops>>
  /\ UNCHANGED <<svars, dvars, kvars, pvars, cvars, hvars, evars>>

\* "if self.novnc_process:" and its try: terminate the relay process;
\* fails = TRUE is terminate raising, which the except clause logs. The
\* attribute keeps the process object afterwards.
CleanupTerminate(fails) ==
  /\ u_pc = "terminate"
  /\ IF u_process = "none"
       THEN /\ ~fails
            /\ UNCHANGED <<u_process, u_fails, u_log>>
       ELSE IF fails
         THEN /\ u_fails' = u_fails + 1
              /\ u_log' = Append(u_log, "error_terminate")
              /\ UNCHANGED u_process
         ELSE /\ u_process' = "exited"
              /\ u_log' = Append(u_log, "terminated")
              /\ UNCHANGED u_fails
  /\ u_pc' = "stop"
  /\ UNCHANGED <<u_desktop, u_container, u_calls, u_stops>>
  /\ UNCHANGED <<svars, dvars, kvars, pvars, cvars, hvars, evars>>

\* "if self.desktop:" and its try: Desktop.stop, which catches NotFound of
\* containers.get itself; fails = TRUE is any other exception of the daemon
\* (at get, stop or remove), which the except clause of cleanup logs. Then
\* cleanup returns.
CleanupStop(fails) ==
  /\ u_pc = "stop"
  /\ IF ~u_desktop
       THEN /\ ~fails
            /\ UNCHANGED <<u_container, u_stops, u_fails, u_log>>
       ELSE /\ u_stops' = u_stops + 1
            /\ IF fails
                 THEN /\ u_fails' = u_fails + 1
                      /\ u_log' = Append(u_log, "error_stop")
                      /\ UNCHANGED u_container
                 ELSE /\ u_container' = "absent"
                      /\ u_log' = Append(u_log, "stopped")
                      /\ UNCHANGED u_fails
  /\ u_pc' = "returned"
  /\ UNCHANGED <<u_process, u_desktop, u_calls>>
  /\ UNCHANGED <<svars, dvars, kvars, pvars, cvars, hvars, evars>>

NextCleanup ==
  \/ CleanupBegin
  \/ \E fails \in BOOLEAN : CleanupTerminate(fails)
  \/ \E fails \in BOOLEAN : CleanupStop(fails)

SpecCleanup == CleanupInit /\ [][NextCleanup]_vars

\* ================================================================ claims
Range(q) == {q[i] : i \in 1..Len(q)}

CompleteEvents(s) == {i \in 1..Len(hist[s]) : hist[s][i].type = "complete"}

\* The cancel request c has passed the membership test of line 530
CancelAccepted(c) == cpc[c] \notin {"idle", "r404"}

\* The cancel request c has put its complete event
CancelPutAll(c) ==
  cpc[c] \in {"chk_sessions", "del_sessions", "chk_threads", "del_threads", "r200", "r500"}
  /\ \E i \in 1..Len(hist[csid[c]]) :
       hist[csid[c]][i].src = "cancel" /\ hist[csid[c]][i].by = c
       /\ hist[csid[c]][i].type = "complete"

\* No producer is left that will put on the queue of s: the thread has
\* ended and no cancel request for s is between its test and its last put
Quiescent(s) ==
  /\ tpc[s] = "done"
  /\ \A c \in Cancellers : csid[c] = s => cpc[c] \in {"r404", "r200", "r500"}

\* C1: every session that has reached a terminal state has exactly one
\* complete event on its stream: never two, and one once the loop thread and
\* every cancel request for the session have finished.
C1_ExactlyOneComplete ==
  \A s \in AllSessions :
    /\ Cardinality(CompleteEvents(s)) <= 1
    /\ Quiescent(s) => Cardinality(CompleteEvents(s)) = 1

\* C2: the gated action of a surfaced safety check is executed at most once,
\* and not at all unless a call passed acknowledged_safety_checks=True for
\* it, however many calls were made without acknowledgment; a call passes
\* acknowledged_safety_checks=True only after the user acknowledged.
C2_GatedNeedsAck ==
  /\ pendingExecs <= 1
  /\ pendingExecs = 1 => ackPassed
  /\ ackPassed => ackSupplied
  /\ a_pending => pendingExecs = 0

\* C2 witness: the user typed "ack", the driver resumed with the
\* acknowledgment and the gated action was executed once
C2_Witness ==
  d_mode = "test" /\ pendingExecs = 1 /\ ackSupplied /\ ackPassed /\ h_pc = "done"

\* C2, the other case: the server resumed twice without acknowledgment and
\* the gated action is still pending, not executed
C2_UnackedReached ==
  d_mode = "server" /\ unackedResumes >= 2 /\ ackSupplied /\ a_pending /\ pendingExecs = 0

\* C3: the events a listener has received are events of its session's queue
\* in the order they were put: their positions in the put history strictly
\* increase (no reordering, no duplicate) and each is the event put there.
C3_StreamOrder ==
  \A l \in AllListeners :
    /\ \A i \in 1..Len(received[l]) :
         /\ received[l][i].id \in 1..Len(hist[lsid[l]])
         /\ hist[lsid[l]][received[l][i].id] = received[l][i]
    /\ \A i, j \in 1..Len(received[l]) :
         i < j => received[l][i].id < received[l][j].id

\* C3 witness: one listener has received events of the log handler, of
\* cancel_agent and of the loop thread
C3_Witness ==
  \E l \in AllListeners :
    /\ \E i \in 1..Len(received[l]) : received[l][i].src = "handler"
    /\ \E i \in 1..Len(received[l]) : received[l][i].src = "cancel"
    /\ \E i \in 1..Len(received[l]) : received[l][i].src = "thread"

\* Positions in hist[s] of the events of type t put by cancel request c
CancelPut(c, t) ==
  {i \in 1..Len(hist[csid[c]]) :
     hist[csid[c]][i].src = "cancel" /\ hist[csid[c]][i].by = c
     /\ hist[csid[c]][i].type = t}

\* C4: a cancel request for a registered session never fails, and when it
\* has returned the stop event is set, its log, result and complete events
\* are on the queue in that order and the id is in neither registry.
C4_CancelContract ==
  \A c \in Cancellers :
    CancelAccepted(c) =>
      /\ cpc[c] # "r500"
      /\ cpc[c] = "r200" =>
           /\ stop_event[csid[c]]
           /\ csid[c] \notin active_sessions
           /\ csid[c] \notin active_threads
           /\ \E i \in CancelPut(c, "log") : \E j \in CancelPut(c, "result") :
                \E k \in CancelPut(c, "complete") : i < j /\ j < k

\* C5: a listener attached before the cancel request receives, after the
\* cancellation log, no result or complete event of the loop thread.
C5_CleanCancelSequence ==
  \A l \in AllListeners :
    early[l] =>
      \A i, j \in 1..Len(received[l]) :
        (i < j /\ received[l][i].src = "cancel" /\ received[l][i].type = "log")
          => ~(received[l][j].src = "thread"
               /\ received[l][j].type \in {"result", "complete"})

Suspended(s) == status[s] \in {"NEEDS_INPUT", "NEEDS_SAFETY_CHECK"}

\* C7: after a cancel request for a session whose loop has returned
\* NEEDS_INPUT or NEEDS_SAFETY_CHECK, no sandbox action is executed for the
\* session, and when the request has returned a complete event has been put
\* on the session's stream (by the request itself when it succeeded).
C7_CancelSuspended ==
  /\ [][\A s \in AllSessions :
          (Suspended(s) /\ \E c \in Cancellers : csid[c] = s /\ CancelAccepted(c))
            => cmds'[s] = cmds[s]]_vars
  /\ [](\A c \in Cancellers :
          (CancelAccepted(c) /\ Suspended(csid[c]) /\ cpc[c] \in {"r200", "r500"})
            => /\ CompleteEvents(csid[c]) # {}
               /\ cpc[c] = "r200" => CancelPut(c, "complete") # {})

\* C7 witness: a cancel request has returned for a session whose loop had
\* returned NEEDS_SAFETY_CHECK after executing an action
C7_Witness ==
  \E c \in Cancellers :
    /\ cpc[c] = "r200"
    /\ status[csid[c]] = "NEEDS_SAFETY_CHECK"
    /\ cmds[csid[c]] = 1
    /\ CancelPut(c, "complete") # {}

\* C8: a listener of a session whose loop has ended is never left without
\* any way to receive a complete event: one is still on the queue, or the
\* session is still registered so that a cancel request can put one.
C8_ListenerCanEnd ==
  \A l \in AllListeners :
    (lpc[l] = "streaming" /\ tpc[lsid[l]] = "done") =>
      \/ \E e \in Range(queue[lsid[l]]) : e.type = "complete"
      \/ lsid[l] \in active_sessions
      \/ \E c \in Cancellers : csid[c] = lsid[l] /\ CancelAccepted(c) /\ ~CancelPutAll(c)

\* C9: with two listeners attached before the loop returned, a result or
\* complete event of the loop thread received by one of them has been
\* received by the other or is still on the queue for it.
C9_EachListenerGetsAll ==
  \A l1, l2 \in AllListeners :
    (l1 # l2 /\ early[l1] /\ early[l2] /\ lsid[l1] = lsid[l2]) =>
      \A e \in Range(received[l1]) :
        (e.src = "thread" /\ e.type \in {"result", "complete"}) =>
          e \in Range(received[l2]) \/ e \in Range(queue[lsid[l1]])

\* C10: at most one agent loop runs on the server's Desktop at a time.
C10_OneLoopAtATime ==
  Cardinality({s \in AllSessions : tpc[s] \in {"check", "decide", "exec"}}) <= 1

\* C11: the agent_response of a result event the thread of s puts comes from
\* the loop of s: a pending safety check is reported only when the loop of s
\* returned NEEDS_SAFETY_CHECK, and a text only when the interactive loop of
\* s returned COMPLETE or NEEDS_INPUT.
C11_ResultIsOwn ==
  \A s \in AllSessions : \A i \in 1..Len(hist[s]) :
    (hist[s][i].type = "result" /\ hist[s][i].src = "thread") =>
      /\ hist[s][i].data = "pending" => status[s] = "NEEDS_SAFETY_CHECK"
      /\ hist[s][i].data = "text" =>
           (~auto_mode[s] /\ status[s] \in {"COMPLETE", "NEEDS_INPUT"})

\* C12: a session record stays in active_sessions until its grace period has
\* elapsed or a cancel request for it was accepted, and once the cleanup
\* thread has finished or a cancel request has succeeded the id is in
\* neither active_sessions nor active_threads.
C12_RecordLifetime ==
  \A s \in issued :
    /\ (cleanup[s] \in {"none", "sleeping"}
        /\ \A c \in Cancellers : ~(csid[c] = s /\ CancelAccepted(c)))
         => s \in active_sessions
    /\ (cleanup[s] \in {"done", "keyerror"}
        \/ \E c \in Cancellers : csid[c] = s /\ cpc[c] = "r200")
         => (s \notin active_sessions /\ s \notin active_threads)

\* C13: a cancel_agent or stream_logs request answers 404 exactly when its
\* session id is not in active_sessions at its membership test; the step
\* that answers 404 changes no registry, no queue and no stop event, the
\* request does nothing afterwards, and it has put and yielded no event.
C13_NotFoundChangesNothing ==
  /\ [][/\ \A c \in Cancellers :
             /\ (cpc[c] = "idle" /\ cpc'[c] # "idle") =>
                  /\ cpc'[c] = "r404" <=> csid'[c] \notin active_sessions
                  /\ cpc'[c] = "r404" =>
                       UNCHANGED <<active_sessions, active_threads, queue, hist, stop_event>>
             /\ cpc[c] = "r404" => cpc'[c] = "r404"
        /\ \A l \in AllListeners :
             /\ (lpc[l] = "idle" /\ lpc'[l] # "idle") =>
                  /\ lpc'[l] = "r404" <=> lsid'[l] \notin active_sessions
                  /\ lpc'[l] = "r404" =>
                       UNCHANGED <<active_sessions, active_threads, queue, hist, stop_event>>
             /\ lpc[l] = "r404" => (lpc'[l] = "r404" /\ received'[l] = <<>>)]_vars
  /\ [](\A c \in Cancellers : cpc[c] = "r404" =>
          \A i \in 1..Len(hist[csid[c]]) :
            ~(hist[csid[c]][i].src = "cancel" /\ hist[csid[c]][i].by = c))

\* C13 witness: a cancel request and a stream_logs request have both been
\* answered 404 for a session that was removed after its grace period, and
\* the session's stop event is not set
C13_Witness ==
  \E c \in Cancellers : \E l \in AllListeners :
    /\ cpc[c] = "r404" /\ lpc[l] = "r404" /\ csid[c] = lsid[l]
    /\ cleanup[csid[c]] = "done"
    /\ ~stop_event[csid[c]]
    /\ Len(hist[csid[c]]) > 0

\* Positions in k_cmds of the commands op on key
KeyCmds(op, key) == {i \in 1..Len(k_cmds) : k_cmds[i].op = op /\ k_cmds[i].key = key}

\* C14: when keypress has ended, by returning or by raising, every modifier
\* it pressed down has been released by exactly one keyup, and the keyup of
\* ctrl comes after every key and keydown command of the batch.
C14_ModifiersReleased ==
  k_pc \in {"returned", "raised"} =>
    \A m \in {"ctrl", "shift"} :
      (\E i \in KeyCmds("keydown", m) : k_cmds[i].ok) =>
        /\ Cardinality(KeyCmds("keyup", m)) = 1
        /\ \A i \in KeyCmds("keyup", m) : \A j \in 1..Len(k_cmds) :
             k_cmds[j].op \in {"key", "keydown"} => j < i

\* C15: no two start-container requests start their relay on the same port
C15_DistinctRelayPorts ==
  \A r1, r2 \in Starters :
    (r1 # r2 /\ relay[r1] # "none" /\ relay[r2] # "none")
      => current_port[r1] # current_port[r2]

\* C16: a scan that begins while every port of the range is occupied ends
\* in PortNotAvailableError, and a scan that ended so probed the ports
\* start, start+1, ..., start+N-1, each once and in this order; no scan
\* probes more than N ports.
C16_ExhaustedAfterNProbes ==
  \A r \in Starters :
    /\ Len(r_probes[r]) <= MAX_PORT_ATTEMPTS
    /\ \A i \in 1..Len(r_probes[r]) : r_probes[r][i] = NOVNC_BASE_PORT + i - 1
    /\ r_out[r] = "exhausted" => Len(r_probes[r]) = MAX_PORT_ATTEMPTS
    /\ (r_full[r] /\ r_pc[r] # "scan") => r_out[r] = "exhausted"

\* C16 witness: a request whose scan began with every port occupied has
\* ended in PortNotAvailableError
C16_Witness ==
  \E r \in Starters :
    r_full[r] /\ r_out[r] = "exhausted" /\ Len(r_probes[r]) = MAX_PORT_ATTEMPTS

\* C19: a start-container request made while an earlier request's relay is
\* running returns the novncPort the earlier request returned, and one
\* relay process is running.
C19_StartContainerIdempotent ==
  \A r \in Starters :
    (r_again[r] /\ r_pc[r] = "returned" /\ r_out[r] = "port") =>
      /\ \A q \in Starters : (q # r /\ r_out[q] = "port") => r_ret[q] = r_ret[r]
      /\ Cardinality({q \in Starters : relay[q] \in {"starting", "listening"}}) = 1

\* The call of caller p ends at this step
CallEnds(p) == t_pc'[p] = "idle" /\ (t_pc[p] # "idle" \/ t_n'[p] # t_n[p])

\* C17: a start call made right after a start call that returned container
\* X (no stop since, no other call meanwhile) returns the same X, running,
\* and creates no container; a stop call that finds no container of the
\* name returns at once without raising and changes nothing.
C17_StartIdempotentStopAbsent ==
  [][\A p \in Callers :
       /\ (CallEnds(p) /\ t_op'[p] = "start" /\ t_alone'[p] /\ t_prev'[p] # 0) =>
            /\ t_out'[p] = "returned"
            /\ t_ret'[p] = t_prev'[p]
            /\ c_id' = t_prev'[p]
            /\ c_state' = "running"
            /\ created' = t_created0'[p]
       /\ (t_n'[p] # t_n[p] /\ t_op'[p] = "stop" /\ c_state = "absent") =>
            /\ CallEnds(p)
            /\ t_out'[p] = "returned"
            /\ UNCHANGED <<c_state, c_id, created>>]_vars

\* C17 witness: one caller's only call was a stop that found no container,
\* and a start call that followed another start returned the same container
C17_Witness ==
  \E p, q \in Callers :
    /\ t_op[p] = "stop" /\ t_n[p] = 1 /\ t_out[p] = "returned" /\ t_handle[p] = 0
    /\ t_op[q] = "start" /\ t_n[q] = 2 /\ t_pc[q] = "idle" /\ t_out[q] = "returned"
    /\ t_alone[q] /\ t_prev[q] # 0 /\ t_ret[q] = t_prev[q] /\ created = 1

\* C18: no start call fails for another reason than the image being
\* unavailable, and a start call that has returned returned a container
\* created for the name (the daemon keeps at most one per name).
C18_StartNeverFails ==
  \A p \in Callers :
    (t_op[p] = "start" /\ t_pc[p] = "idle") =>
      /\ t_out[p] = "raised" => t_why[p] = "image"
      /\ t_out[p] = "returned" => t_ret[p] \in 1..created

Parsed(s) == SelectSeq(hist[s], ParsesAsJson)

\* The loop of the auto-mode session s executed an ungated action and ended
\* with the final answer; its thread has ended and no cancel request came
AutoRunEnded(s) ==
  /\ auto_mode[s] /\ ~gatedRan[s] /\ cmds[s] >= 1
  /\ status[s] = "COMPLETE" /\ tpc[s] = "done" /\ NotCancelled(s)

\* C21: an auto-mode session whose loop executed its action without safety
\* gating and completed has on its stream log events of the run, then a
\* result event reporting the outcome of the run (not an error), then the
\* complete event, and nothing else.
C21_AutoRunSequence ==
  \A s \in AllSessions :
    AutoRunEnded(s) =>
      LET ev == Parsed(s) IN
        /\ Len(ev) >= 3
        /\ ev[Len(ev)].type = "complete"
        /\ ev[Len(ev) - 1].type = "result"
        /\ ev[Len(ev) - 1].data # "error"
        /\ \A i \in 1..(Len(ev) - 2) : ev[i].type = "log" /\ ev[i].src = "handler"

\* Positions in hist[s] of the events of type t put by the thread of s
ThreadPut(s, t) ==
  {i \in 1..Len(hist[s]) : hist[s][i].src = "thread" /\ hist[s][i].type = t}

\* C22: in a session that is not in auto mode (no acknowledgment reaches
\* the loop) no action gated by a safety check is executed; a loop that was
\* proposed such an action returns NEEDS_SAFETY_CHECK holding it, and the
\* thread then puts a result event whose payload is the pending safety check,
\* followed by its complete event.
C22_GatedInteractiveSurfaces ==
  \A s \in AllSessions :
    ~auto_mode[s] =>
      /\ ~gatedRan[s]
      /\ (proposal[s] = "gated" /\ tpc[s] # "decide") =>
           (status[s] = "NEEDS_SAFETY_CHECK" /\ tpc[s] \notin {"check", "exec"})
      /\ (status[s] = "NEEDS_SAFETY_CHECK" /\ tpc[s] = "done") =>
           /\ proposal[s] = "gated"
           /\ \E i \in ThreadPut(s, "result") : \E j \in ThreadPut(s, "complete") :
                i < j /\ hist[s][i].data = "pending"
           /\ Cardinality(ThreadPut(s, "result")) = 1

\* C22 witness: an interactive session executed an ungated action, was then
\* proposed a gated one, and its thread has put the pending safety check and
\* the complete event; no cancel request came
C22_Witness ==
  \E s \in AllSessions :
    /\ ~auto_mode[s] /\ status[s] = "NEEDS_SAFETY_CHECK" /\ tpc[s] = "done"
    /\ cmds[s] = 1 /\ proposal[s] = "gated" /\ ~gatedRan[s] /\ NotCancelled(s)
    /\ \E i \in ThreadPut(s, "result") : hist[s][i].data = "pending"

\* The loop of s failed: desktop.action raised (or there is no Desktop), or
\* it returned ERROR
LoopFailed(s) == status[s] \in {"RAISED", "ERROR"}

\* C23: when the loop of a session failed, its thread puts one result event
\* and then its complete event and ends; the failure changes neither the set
\* of sessions whose run-agent request was answered with a session id nor
\* the state of a stream that is open (it goes on or ends after a complete
\* event, never in an error response).
C23_FailureReportedOnStream ==
  /\ [](\A s \in AllSessions :
          (LoopFailed(s) /\ tpc[s] = "done") =>
            /\ Cardinality(ThreadPut(s, "result")) = 1
            /\ Cardinality(ThreadPut(s, "complete")) = 1
            /\ \A i \in ThreadPut(s, "result") : \A j \in ThreadPut(s, "complete") : i < j)
  /\ [][\A s \in AllSessions :
          LoopFailed(s)' =>
            /\ tpc'[s] \in {"tail", "exc_result", "finally", "done"}
            /\ s \in issued'
            /\ \A l \in AllListeners :
                 (lsid[l] = s /\ lpc[l] = "streaming") =>
                   /\ lpc'[l] \in {"streaming", "ended"}
                   /\ lpc'[l] = "ended" =>
                        received'[l][Len(received'[l])].type = "complete"]_vars

\* C23 witness: the call of desktop.action raised, the thread has put an
\* error result and its complete event, and a listener that was attached
\* while the loop ran has received both and its stream has ended
C23_Witness ==
  \E s \in AllSessions : \E l \in AllListeners :
    /\ status[s] = "RAISED" /\ tpc[s] = "done" /\ NotCancelled(s)
    /\ lsid[l] = s /\ early[l] /\ lpc[l] = "ended"
    /\ \E i, j \in 1..Len(received[l]) :
         /\ i < j
         /\ received[l][i].type = "result" /\ received[l][i].src = "thread"
         /\ received[l][i].data = "error"
         /\ received[l][j].type = "complete" /\ received[l][j].src = "thread"

\* C30: no delete of a registry entry fails because the entry went away
\* after the membership test that guards it: the del of cleanup_session
\* never raises KeyError, and a cancel request that has reached one of its
\* deletes goes on to its success response.
C30_SafeRemoval ==
  [][/\ \A s \in AllSessions :
          cleanup[s] = "del" => cleanup'[s] # "keyerror"
     /\ \A c \in Cancellers :
          cpc[c] \in {"del_sessions", "del_threads"} => cpc'[c] # "r500"]_vars

\* C24: a run-agent request answered with 400 changes nothing of the
\* session manager: no session id is issued, neither registry gains an
\* entry, no thread starts and no queue, command count or decision-service
\* call changes; and a request is answered with a session id only when its
\* body has passed the schema.
C24_RejectedCreatesNothing ==
  /\ [](req_reply = 200 => req_body = "valid")
  /\ [](req_body \in {"empty", "invalid"} => req_reply = 400)
  /\ [][(req_reply' = 400 /\ <<req_body, req_reply>>' # <<req_body, req_reply>>)
          => UNCHANGED svars]_vars

\* C24 witness: a request whose body fails the schema was answered with 400
\* while the session of an earlier request was running, and that session is
\* still the only one
C24_Witness ==
  /\ req_body = "invalid" /\ req_reply = 400
  /\ issued = {1} /\ active_sessions = {1} /\ active_threads = {1}
  /\ tpc[1] = "decide"

\* C29: the generator of a listener yields a heartbeat only while it is
\* streaming and its session's queue is empty, and that step leaves every
\* queue, the put history and what every listener has received unchanged;
\* what it yields otherwise is the oldest message of the queue, which it
\* takes off; once it has yielded a complete event it yields no event and
\* no heartbeat.
C29_HeartbeatOnlyWhenIdle ==
  [][\A l \in AllListeners :
       /\ beats'[l] # beats[l] =>
            /\ lpc[l] = "streaming" /\ lpc'[l] = "streaming"
            /\ queue[lsid[l]] = <<>>
            /\ UNCHANGED <<queue, hist, received>>
       /\ received'[l] # received[l] =>
            /\ lpc[l] = "streaming" /\ queue[lsid[l]] # <<>>
            /\ received'[l] = Append(received[l], Head(queue[lsid[l]]))
            /\ queue'[lsid[l]] = Tail(queue[lsid[l]])
            /\ beats'[l] = beats[l]
       /\ lpc[l] = "ended" =>
            /\ received[l][Len(received[l])].type = "complete"
            /\ lpc'[l] = "ended"
            /\ received'[l] = received[l]
            /\ beats'[l] = beats[l]]_vars

\* C29 witness: a listener yielded a heartbeat and its stream has ended
\* after the log, result and complete events of its session, while the
\* queue holds nothing
C29_Witness ==
  \E l \in AllListeners :
    /\ beats[l] = 1 /\ lpc[l] = "ended" /\ queue[lsid[l]] = <<>>
    /\ Len(received[l]) >= 3
    /\ received[l] = SelectSeq(hist[lsid[l]], ParsesAsJson)

\* The commands issued so far by the run ep
Issued(ep) == [i \in 1..Len(e_cmds[ep]) |-> e_cmds[ep][i].cmd]

\* C28: the command of every click, of the sandbox API (dedicated or generic
\* endpoint) and of Desktop.click alike, carries the button number of the
\* button string compared without regard to case: left gives 1, middle and
\* wheel give 2, right gives 3, and every other string gives 1.
C28_ButtonMapping ==
  \A ep \in Runs :
    e_args[ep].fn = "click" =>
      \A i \in 1..Len(Issued(ep)) :
        /\ Issued(ep)[i].op = "mousemove_click"
        /\ Issued(ep)[i].n =
             (CASE e_args[ep].button \in {"left", "Left", "LEFT"} -> 1
                [] e_args[ep].button \in {"middle", "Middle", "wheel", "Wheel"} -> 2
                [] e_args[ep].button \in {"right", "Right", "RIGHT"} -> 3
                [] OTHER -> 1)

\* The three entry points clicked with the button "Right" and dispatched 3
C28_Witness ==
  /\ e_req.type = "click" /\ e_req.button = {"Right"}
  /\ \A ep \in Runs : Len(Issued(ep)) = 1 /\ Issued(ep)[1].n = 3

\* C26: every scroll issues the pointer move to (x, y) first; after it come
\* only ticks, of button 4 when scroll_y < 0, 5 when scroll_y > 0, 6 when
\* scroll_x < 0 and 7 when scroll_x > 0, so a delta of 0 gives no tick on its
\* axis whatever the other delta is; a scroll that ran to its end issued the
\* ticks of each axis whose delta is not 0.
C26_ScrollDirection ==
  \A ep \in Runs :
    e_args[ep].fn = "scroll" =>
      LET a == e_args[ep]
          cs == Issued(ep)
      IN /\ cs # <<>> => cs[1] = Cmd("mousemove", a.x, a.y, 0, "")
         /\ \A i \in 2..Len(cs) :
              /\ cs[i].op = "click"
              /\ \/ a.scroll_y < 0 /\ cs[i].n = 4
                 \/ a.scroll_y > 0 /\ cs[i].n = 5
                 \/ a.scroll_x < 0 /\ cs[i].n = 6
                 \/ a.scroll_x > 0 /\ cs[i].n = 7
         /\ e_resp[ep].status \in {"success", "returned"} =>
              /\ a.scroll_y # 0 => \E i \in 2..Len(cs) : cs[i].n \in {4, 5}
              /\ a.scroll_x # 0 => \E i \in 2..Len(cs) : cs[i].n \in {6, 7}

\* A scroll up and to the right ran to its end in the sandbox API and in
\* Desktop.scroll, and a scroll with scroll_y = 0 is the other case
C26_Witness ==
  /\ e_req.type = "scroll" /\ e_req.scroll_y = {-100} /\ e_req.scroll_x = {100}
  /\ e_resp["endpoint"].status = "success" /\ Len(Issued("endpoint")) = 7
  /\ e_resp["desktop"].status = "returned" /\ Len(Issued("desktop")) = 9
  /\ \E i \in 2..7 : Issued("endpoint")[i].n = 4

\* The capture command of the screenshot of run ep failed
CaptureFailed(ep) ==
  /\ e_args[ep].fn = "take_screenshot"
  /\ \E i \in 1..Len(e_cmds[ep]) : ~e_cmds[ep][i].ok

\* C25: a screenshot never raises to its caller, in the sandbox API's
\* take_screenshot and in Desktop.get_screenshot alike: once the capture
\* command has failed, the operation has returned a result with status
\* error.
C25_ScreenshotNeverRaises ==
  \A ep \in Runs :
    CaptureFailed(ep) => e_pc[ep] = "done" /\ e_resp[ep].status = "error"

\* The same, for the sandbox API's take_screenshot only
ApiScreenshotReturnsError ==
  \A ep \in {"endpoint", "action"} :
    CaptureFailed(ep) => e_pc[ep] = "done" /\ e_resp[ep] = [code |-> 200, status |-> "error"]

\* The request is one the dedicated endpoint of its type serves: the type
\* has an endpoint and the required fields are present
Served == e_args["endpoint"].fn \notin {"none", "reject"}

\* C27: for every action type of the vocabulary and every parameter value,
\* the generic /action endpoint issues the same commands and returns the same
\* response as the dedicated endpoint of the type given the same parameters,
\* and /action dispatches the navigate action instead of rejecting it.
C27_GenericMatchesDedicated ==
  /\ (/\ e_req.type \in Vocabulary
      /\ e_pc["endpoint"] = "done" /\ e_pc["action"] = "done"
      /\ Served)
       => /\ e_cmds["action"] = e_cmds["endpoint"]
          /\ e_resp["action"] = e_resp["endpoint"]
          /\ e_args["action"] = e_args["endpoint"]
  /\ (e_req.type = "navigate" /\ e_req.url # {} /\ e_pc["action"] = "done")
       => e_args["action"].fn # "reject"

\* C31: log events are isolated per session: a log record emitted by the
\* loop of one session is put on that session's queue only, never on the
\* queue of another session running at the same time.
C31_LogsIsolated ==
  \A s \in AllSessions :
    \A i \in 1..Len(hist[s]) :
      hist[s][i].src = "handler" => hist[s][i].by = s

\* C32: whenever no loop thread is running (each one started has finished),
\* the root logger has the configuration it had before any session started:
\* its level is the original level and no session's QueueHandler is attached.
C32_LoggerRestored ==
  (\A s \in AllSessions : tpc[s] \in {"none", "done"})
    => root_level = "INFO" /\ handlers = {}

\* C33: a run-agent request that carries safety_acknowledged = true while a
\* safety check is pending is accepted and calls the loop with
\* acknowledged_safety_checks = true.
C33_AckOverHttp ==
  [][(d_mode = "server" /\ ~ackSupplied /\ ackSupplied')
       => (d_calls' = d_calls + 1 /\ h_ack')]_vars

\* C34: a start call that finds no container pulls the image at most twice;
\* it raises the provisioning error (the image cannot be found or pulled)
\* only when its second pull has failed, and then without a container
\* having been created; after its first pull, failed or not, the call goes
\* on to create the container.
C34_PullRetriedOnce ==
  /\ [](\A p \in Callers : Len(t_pulls[p]) <= 2)
  /\ [][\A p \in Callers :
          /\ (CallEnds(p) /\ t_op'[p] = "start" /\ t_out'[p] = "raised"
                /\ t_why'[p] = "image") =>
               /\ t_pulls'[p] = <<FALSE, FALSE>>
               /\ UNCHANGED <<c_state, c_id, created>>
               /\ t_alone'[p] => created' = t_created0'[p]
          /\ (t_pc[p] = "pull" /\ t_pc'[p] # "pull") => t_pc'[p] = "run"]_vars

\* One start call raised the provisioning error after two failed pulls and
\* no container existed; a later start call, whose first pull failed too,
\* returned the container it created after its second pull
C34_Witness ==
  \E p, q \in Callers :
    /\ t_op[p] = "start" /\ t_pc[p] = "idle" /\ t_out[p] = "raised"
    /\ t_why[p] = "image" /\ t_pulls[p] = <<FALSE, FALSE>>
    /\ t_op[q] = "start" /\ t_pc[q] = "idle" /\ t_out[q] = "returned"
    /\ t_pulls[q] = <<FALSE, TRUE>> /\ created = 1 /\ t_ret[q] = 1

\* C35: find_available_port probes the ports of its range in increasing
\* order from the start port and stops at the first one its probe finds
\* available: the port it returns is in the range, was found available by
\* its probe, and every port of the range below it is occupied; it raises
\* only when every port of the range is occupied.
C35_LowestAvailablePort ==
  /\ [](\A r \in Starters :
          \A i \in 1..Len(r_probes[r]) : r_probes[r][i] = NOVNC_BASE_PORT + i - 1)
  /\ [][\A r \in Starters :
          /\ (r_pc[r] = "scan" /\ r_pc'[r] = "popen") =>
               /\ current_port'[r] \in PortRange
               /\ current_port'[r] \notin occupied
               /\ current_port'[r] = r_probes'[r][Len(r_probes'[r])]
               /\ \A q \in PortRange : q < current_port'[r] => q \in occupied
          /\ (r_pc[r] = "scan" /\ r_out'[r] = "exhausted") =>
               PortRange \subseteq occupied]_vars

\* The scan of a request found the start port occupied and returned the
\* next one
C35_Witness ==
  \E r \in Starters :
    /\ r_pc[r] = "popen" /\ current_port[r] = NOVNC_BASE_PORT + 1
    /\ r_probes[r] = <<NOVNC_BASE_PORT, NOVNC_BASE_PORT + 1>>
    /\ NOVNC_BASE_PORT \in occupied /\ NOVNC_BASE_PORT + 1 \notin occupied

\* The ticks the run ep issued on one axis
TicksOn(ep, axis) ==
  Cardinality({i \in 2..Len(Issued(ep)) :
                 Issued(ep)[i].n \in (IF axis = "y" THEN {4, 5} ELSE {6, 7})})

\* C36: a scroll that ran to its end issued, on each axis whose delta is not
\* 0, one constant number of ticks (3 or 4) whatever the magnitude of the
\* delta, and that number is the same in the sandbox API's scroll and in
\* Desktop.scroll.
C36_ScrollTicksConstant ==
  \E k \in 3..4 :
    \A ep \in Runs :
      (e_args[ep].fn = "scroll" /\ e_resp[ep].status \in {"success", "returned"}) =>
        /\ TicksOn(ep, "y") = (IF e_args[ep].scroll_y = 0 THEN 0 ELSE k)
        /\ TicksOn(ep, "x") = (IF e_args[ep].scroll_x = 0 THEN 0 ELSE k)

\* The same for the two entry points of the sandbox API alone, and for
\* Desktop.scroll alone
ApiScrollTicks ==
  \A ep \in {"endpoint", "action"} :
    (e_args[ep].fn = "scroll" /\ e_resp[ep].status = "success") =>
      /\ TicksOn(ep, "y") = (IF e_args[ep].scroll_y = 0 THEN 0 ELSE 3)
      /\ TicksOn(ep, "x") = (IF e_args[ep].scroll_x = 0 THEN 0 ELSE 3)

DesktopScrollTicks ==
  (e_args["desktop"].fn = "scroll" /\ e_resp["desktop"].status = "returned") =>
    /\ TicksOn("desktop", "y") = (IF e_args["desktop"].scroll_y = 0 THEN 0 ELSE 4)
    /\ TicksOn("desktop", "x") = (IF e_args["desktop"].scroll_x = 0 THEN 0 ELSE 4)

\* C37: keypress issues one command per key token, in the order of the
\* batch: keydown for the tokens CTRL and SHIFT in any case, key Return for
\* enter, key space for space, and key with the lower-cased token otherwise,
\* so that the keydown of a modifier precedes the commands of all later
\* tokens; the keyup commands come after the command of the last token, ctrl
\* before shift, one for each modifier of the batch.
C37_KeypressOrder ==
  LET n == Len(k_keys)
      m == Len(k_cmds)
      Sent(i) == [op |-> k_cmds[i].op, key |-> k_cmds[i].key]
      Expected(k) ==
        CASE k \in {"CTRL", "ctrl"} -> [op |-> "keydown", key |-> "ctrl"]
          [] k = "SHIFT" -> [op |-> "keydown", key |-> "shift"]
          [] k = "Enter" -> [op |-> "key", key |-> "Return"]
          [] k = "space" -> [op |-> "key", key |-> "space"]
          [] k = "A" -> [op |-> "key", key |-> "a"]
      Ups == (IF \E i \in 1..n : k_keys[i] \in {"CTRL", "ctrl"}
                THEN <<[op |-> "keyup", key |-> "ctrl"]>> ELSE <<>>)
             \o (IF \E i \in 1..n : k_keys[i] = "SHIFT"
                   THEN <<[op |-> "keyup", key |-> "shift"]>> ELSE <<>>)
  IN /\ m <= n + Len(Ups)
     /\ \A i \in 1..m : Sent(i) = (IF i <= n THEN Expected(k_keys[i]) ELSE Ups[i - n])
     /\ k_pc = "returned" => m = n + Len(Ups)

\* The sandbox API's keypress returned for the batch ctrl, SHIFT, A: three
\* commands of the tokens, then keyup ctrl and keyup shift
C37_Witness ==
  /\ k_impl = "api" /\ k_pc = "returned"
  /\ k_keys = <<"ctrl", "SHIFT", "A">>
  /\ Len(k_cmds) = 5 /\ k_cmds[4].key = "ctrl" /\ k_cmds[5].key = "shift"

\* The two entry points of the sandbox API
ApiRuns == {"endpoint", "action"}

\* The request lacks a parameter its type requires
MissingParameter ==
  \/ e_req.type \in {"click", "scroll"} /\ (e_req.x = {} \/ e_req.y = {})
  \/ e_req.type = "keypress" /\ e_req.keys = {}
  \/ e_req.type = "type" /\ e_req.text = {}

\* The run ep has ended in a result or an error: its status is success only
\* with code 200 and every command of the action issued and succeeded; a
\* failed command is the last one issued and its answer satisfies failed;
\* the answer to a missing parameter satisfies missing and the answer to an
\* unknown type is 400, no command issued
ResultOrError(ep, failed, missing) ==
  e_pc[ep] = "done" =>
    /\ e_resp[ep].status \in {"success", "error"}
    /\ e_resp[ep].status = "success" =>
         /\ e_resp[ep].code = 200
         /\ Issued(ep) = Plan(ep, e_args[ep])
         /\ \A i \in 1..Len(e_cmds[ep]) : e_cmds[ep][i].ok
    /\ \A i \in 1..Len(e_cmds[ep]) :
         ~e_cmds[ep][i].ok =>
           /\ i = Len(e_cmds[ep])
           /\ e_resp[ep].status = "error"
           /\ failed
    /\ MissingParameter => missing /\ e_cmds[ep] = <<>>
    /\ (ep = "action" /\ e_req.type = "bogus") =>
         e_resp[ep].code = 400 /\ e_cmds[ep] = <<>>

\* C38: every action request to the sandbox API ends in a result or an
\* error: status success is returned only if every command of the action
\* succeeded; a failing command ends the action with a non-2xx error and
\* none of the remaining commands issued; an unknown action type or a
\* missing required parameter is answered with 400, no command issued.
C38_ResultOrError ==
  LET Non2xx(ep) == e_resp[ep].code \notin 200..299
      Is400(ep) == e_resp[ep].code = 400
  IN \A ep \in ApiRuns : ResultOrError(ep, Non2xx(ep), Is400(ep))

\* C38 as the code has it: the failing capture of a screenshot is answered
\* with 200 and status error, every other failing command with 500; a
\* missing parameter is answered with 400 by /action and with 422 by the
\* request model of a dedicated endpoint.
C38_ResultOrErrorAsBuilt ==
  LET Failed(ep) == e_resp[ep].code = (IF e_args[ep].fn = "take_screenshot" THEN 200 ELSE 500)
      Missing(ep) == e_resp[ep].code = (IF ep = "action" THEN 400 ELSE 422)
  IN \A ep \in ApiRuns : ResultOrError(ep, Failed(ep), Missing(ep))

\* A scroll given to /action failed at its second command, was answered
\* with 500 and issued none of its remaining ticks
C38_Witness ==
  /\ e_req.type = "scroll" /\ e_req.scroll_y = {100}
  /\ e_pc["action"] = "done" /\ e_resp["action"] = [code |-> 500, status |-> "error"]
  /\ Len(e_cmds["action"]) = 2 /\ ~e_cmds["action"][2].ok
  /\ Len(Plan("action", e_args["action"])) > 2

\* C39: cleanup never raises: whether or not terminating the relay process
\* failed, each call of cleanup on a server with a Desktop calls
\* desktop.stop once; every failure of a step is logged as an error and
\* nothing else happens to it; a second call of cleanup returns as well.
C39_CleanupNeverRaises ==
  /\ u_pc # "raised"
  /\ (u_pc = "returned" /\ u_desktop) => u_stops = u_calls
  /\ Cardinality({i \in 1..Len(u_log) : u_log[i] \in {"error_terminate", "error_stop"}})
       = u_fails

\* The first call of cleanup failed to terminate the relay and stopped the
\* container all the same; the second call has returned too
C39_Witness ==
  /\ u_calls = 2 /\ u_pc = "returned" /\ u_stops = 2
  /\ u_log = <<"cleaning", "error_terminate", "stopped",
               "cleaning", "terminated", "stopped">>

====
